---- MODULE Spec2Model ----
(***************************************************************************)
(* Model of the authentication core of career_mate_backend: the user       *)
(* documents with their OAuth links, the oauth_sessions collection         *)
(* (OAuthSessionManager), and the oauth_linking_sessions collection         *)
(* (AccountLinkingSecurityManager).  The persistent store is MongoDB: one   *)
(* find / update / insert / delete is one atomic step, a handler is a       *)
(* sequence of such steps.                                                  *)
(*                                                                          *)
(* Specifications:                                                          *)
(*   Spec            the linking state machine, one handler per step        *)
(*   SpecSession     the session store: create, revoke, get                 *)
(*   SpecSessionSweep the session store: create, refresh, list, sweeps      *)
(*   SpecAccounts    sign-in, link and unlink routes, one handler per step  *)
(*   SpecCreateRace  concurrent create_session requests, one query per step *)
(*   SpecLinkRace    concurrent link / complete requests, one query per step*)
(*   SpecUnlinkRace  concurrent unlink requests, one query per step         *)
(*   SpecLinkFresh   the linking state machine, accounts without links      *)
(*   SpecStorage     the session store when the database is unreachable     *)
(*   SpecCap         create_session next to the per-user session limit      *)
(*   SpecRefreshRace concurrent refresh, revoke, get, list and sweep        *)
(*   SpecVerifyRace  concurrent verify_email_for_linking requests           *)
(*   SpecLinkSweep   the sweep of the linking sessions                      *)
(*   SpecScheduler   the cleanup scheduler: start, stop and the loop threads*)
(*   SpecLimiter     the rate limiter, one is_allowed call per step         *)
(*   SpecCache       the token-validation cache, one call per step          *)
(***************************************************************************)
EXTENDS Integers, Sequences, FiniteSets, TLC

VARIABLES
    users,              \* db.users: user id -> document
    oauth_sessions,     \* db.oauth_sessions: session id -> document
    sess_seq,           \* number of ObjectIds handed out for oauth_sessions
    linking_sessions,   \* db.oauth_linking_sessions: session id -> document
    oauth_linking_audit,\* db.oauth_linking_audit: the distinct entries written
    link_seq,           \* number of ObjectIds handed out for linking sessions
    now,                \* datetime.utcnow(), in seconds
    last,               \* the last handler call: operation, argument, outcome
    wrong_submitted,    \* history: wrong codes submitted per linking session (saturates)
    wrong_passwords,    \* history: wrong passwords submitted per linking session (saturates)
    pc,                 \* per request: the step it is at (interleaved specs)
    loc,                \* per request: its local variables (interleaved specs)
    running,            \* OAuthCleanupScheduler.running
    cleanup_thread,     \* OAuthCleanupScheduler.cleanup_thread: the thread started last, 0 for None
    threads,            \* the threads start_scheduler has started: thread id -> state
    requests,           \* RateLimiter.requests: ip -> the timestamps kept, oldest first (a defaultdict)
    admitted,           \* history: ip -> the timestamps of the calls is_allowed admitted
    validation_cache    \* OAuthTokenValidator.validation_cache: the entries, one per cache key

vars == <<users, oauth_sessions, sess_seq, linking_sessions, oauth_linking_audit,
          link_seq, now, last, wrong_submitted, wrong_passwords,
          pc, loc,
          running, cleanup_thread, threads, requests, admitted, validation_cache>>

\* the objects held in the memory of the server process
Process == <<running, cleanup_thread, threads, requests, admitted, validation_cache>>

----------------------------------------------------------------------------
(* Bounds of the model *)

MaxTicks == 3           \* the clock stops after this many Tick steps
MaxDigit == 0           \* generated verification codes use the digits 0..MaxDigit
MaxSessions == 2        \* sessions the sequential specifications create
MaxUsers == 3           \* user documents: the two of Init and those sign-in creates
MaxRequests == 2        \* requests in flight in the interleaved specifications
MaxRefreshes == 1       \* refreshes of one session
MaxThreads == 2         \* threads start_scheduler starts
MaxJoins == 7           \* the scheduler's clock stops after this many join timeouts
MaxLimit == 2           \* the limits passed to is_allowed are 1..MaxLimit
MaxMinutes == 1         \* the rate limiter is watched for this many minutes
MaxDays == 1            \* the validation cache is watched for this many days

(* Program constants *)

verification_timeout == 300
max_verification_attempts == 3
linking_session_timeout == 900
max_sessions_per_user == 10
code_length == 6
default_expires_in == 3600
github_expires_in == 28800
default_days_old == 30
seconds_per_day == 86400
session_cleanup_interval == 300
session_retention_days == 30
join_timeout == 10
sleep_seconds == 60
default_window == 60
oauth_window == 300
cache_ttl == 300
cache_max_entries == 1000
cache_evict_count == 100

None == "none"
NoTime == 0 - 1         \* a timestamp field that is not set

\* the users that exist in Init; sign-in may insert users up to MaxUsers
UserIds == {1, 2}
Providers == {"google", "github"}
SubjectIds == {"s1", "s2"}
\* "A@x" is "a@x" in another case; "c@x" is the address of nobody who signed up
Emails == {"a@x", "A@x", "b@x", "c@x"}
Passwords == {"pw1", "pw2"}
Tokens == {"t1", "t2"}
\* lifetimes a provider reports: a token about to expire, and the default
TokenLifetimes == {verification_timeout, default_expires_in}
Requests == 1..MaxRequests

\* the linking session id a client can name: not issued before initiate succeeds
LinkIds == {1}
\* the linking sessions of the interleaved specification
RaceLinkIds == {1, 2}

----------------------------------------------------------------------------
(* Pure helpers *)

\* str.lower() on the e-mail addresses of the model
Lower(e) == IF e = "A@x" THEN "a@x" ELSE e

hash_email(email) == <<"sha256", Lower(email)>>

\* bcrypt.hashpw / bcrypt.checkpw: the hash matches exactly its own plaintext
bcrypt_hash(pw) == <<"bcrypt", pw>>

\* mutant of bcrypt_checkpw: every password passes
bcrypt_checkpw_always(pw, stored) == TRUE

bcrypt_checkpw(pw, stored) == stored = bcrypt_hash(pw)

\* the codes _generate_verification_code can return: code_length digits
Codes == {[i \in 1..code_length |-> d] : d \in 0..MaxDigit}
\* the codes a client submits: every generated one, and one that is never generated
Guesses == {[i \in 1..code_length |-> d] : d \in 0..(MaxDigit + 1)}

\* mutant of hash_token: the provider context is left out of the key
hash_token_no_context(token, provider) == <<"hmac", "oauth", token>>

\* HMAC-SHA256 keyed by "<secret>:<provider or 'oauth'>": injective in (key, token)
hash_token(token, provider) == <<"hmac", IF provider = None THEN "oauth" ELSE provider, token>>

NoDetails ==
    [present |-> FALSE, email_required |-> FALSE, email_completed |-> FALSE,
     password_required |-> FALSE, password_completed |-> FALSE]

Outcome(op, id, result) ==
    [op |-> op, id |-> id, arg |-> <<>>, result |-> result, details |-> NoDetails]

----------------------------------------------------------------------------
(* db.oauth_sessions and OAuthSessionManager *)

create_secure_token_record(token, provider, expires_in, refresh_token, t) ==
    [access_token_hash |-> hash_token(token, provider),
     refresh_token_hash |-> IF refresh_token = None THEN <<None>>
                            ELSE hash_token(refresh_token, provider \o "_refresh"),
     provider |-> provider,
     expires_at |-> t + expires_in,
     created_at |-> t,
     last_used |-> t,
     is_active |-> TRUE]

\* the document create_session inserts; the fields later updates add are unset
session_doc(user_id, provider, provider_user_id, token, refresh_token, expires_in, t) ==
    LET r == create_secure_token_record(token, provider, expires_in, refresh_token, t) IN
    [user_id |-> user_id, provider |-> r.provider, provider_user_id |-> provider_user_id,
     access_token_hash |-> r.access_token_hash, refresh_token_hash |-> r.refresh_token_hash,
     expires_at |-> r.expires_at, created_at |-> r.created_at, last_used |-> r.last_used,
     is_active |-> r.is_active,
     revoked_at |-> NoTime, revocation_reason |-> None,
     expired_at |-> NoTime, expiration_reason |-> None,
     refreshed_at |-> NoTime, refresh_count |-> 0]

\* find({'user_id', 'provider', 'is_active': True})
ActiveSessions(S, user_id, provider) ==
    {i \in DOMAIN S : S[i].user_id = user_id /\ S[i].provider = provider /\ S[i].is_active}

\* mutant of OldestActive: the sort is descending
NewestActive(S, user_id, provider) ==
    {i \in ActiveSessions(S, user_id, provider) :
        \A j \in ActiveSessions(S, user_id, provider) : S[i].created_at >= S[j].created_at}

\* find_one(..., sort=[('created_at', 1)]): any document with the least created_at
OldestActive(S, user_id, provider) ==
    {i \in ActiveSessions(S, user_id, provider) :
        \A j \in ActiveSessions(S, user_id, provider) : S[i].created_at <= S[j].created_at}

\* the update_one of revoke_session, applied to document id
revoke_update(S, id, reason, t) ==
    [S EXCEPT ![id] = [@ EXCEPT !.is_active = FALSE, !.revoked_at = t,
                                !.revocation_reason = reason]]

\* the stores _enforce_session_limits can leave behind
_enforce_session_limits(S, user_id, provider, t) ==
    IF Cardinality(ActiveSessions(S, user_id, provider)) >= max_sessions_per_user
    THEN {revoke_update(S, i, "session_limit_exceeded", t) : i \in OldestActive(S, user_id, provider)}
    ELSE {S}

\* insert_one of a new document under a fresh ObjectId
insert_session(S, seq, doc) ==
    [i \in DOMAIN S \cup {seq + 1} |-> IF i = seq + 1 THEN doc ELSE S[i]]

\* create_session as one step: enforce the limit, then insert
create_session(user_id, provider, provider_user_id, token, expires_in) ==
    \E S \in _enforce_session_limits(oauth_sessions, user_id, provider, now) :
        /\ oauth_sessions' = insert_session(S, sess_seq,
               session_doc(user_id, provider, provider_user_id, token, None, expires_in, now))
        /\ sess_seq' = sess_seq + 1

\* what a caller passes as `mongo`: the database object, or a dict that wraps it
DatabaseHandle == "database"
DictHandle == "dict"

\* models.create_oauth_session returns only if OAuthSessionManager(mongo) can reach
\* mongo.oauth_sessions: on a dict, _enforce_session_limits swallows the
\* AttributeError and insert_one raises it, which create_session turns into
\* INTERNAL_ERROR
create_oauth_session_returns(mongo) == mongo = DatabaseHandle

create_oauth_session(mongo, user_id, provider, provider_user_id, token, expires_in) ==
    IF create_oauth_session_returns(mongo)
    THEN create_session(user_id, provider, provider_user_id, token, expires_in)
    ELSE UNCHANGED <<oauth_sessions, sess_seq>>

----------------------------------------------------------------------------
(* db.users and AccountMerger *)

NoPassword == <<None>>

user_doc(email, password, links, methods) ==
    [email_hash |-> hash_email(email), password |-> password,
     oauth_providers |-> links, login_methods |-> methods]

NoLinks == [p \in Providers |-> None]

\* AccountMerger.can_link_provider on the users collection U
can_link_provider(U, user_id, provider, provider_user_id) ==
    IF U[user_id].oauth_providers[provider] # None
    THEN U[user_id].oauth_providers[provider] = provider_user_id
    ELSE ~ \E v \in DOMAIN U : U[v].oauth_providers[provider] = provider_user_id

\* the update_one of AccountMerger.link_oauth_provider ($set the link, $addToSet the method)
link_update(U, user_id, provider, provider_user_id) ==
    [U EXCEPT ![user_id] = [@ EXCEPT !.oauth_providers[provider] = provider_user_id,
                                     !.login_methods = @ \cup {provider}]]

----------------------------------------------------------------------------
(* db.oauth_linking_sessions and AccountLinkingSecurityManager *)

NoCode == <<>>

\* _create_linking_session: the document inserted
linking_doc(user_id, provider, oauth_id, oauth_email, t) ==
    [user_id |-> user_id, provider |-> provider,
     oauth_id |-> oauth_id, oauth_email |-> oauth_email,
     created_at |-> t, expires_at |-> t + linking_session_timeout,
     status |-> "pending",
     email_verified |-> FALSE, password_verified |-> FALSE,
     completed |-> FALSE, cancelled |-> FALSE, expired |-> FALSE,
     email_verification_attempts |-> 0, password_verification_attempts |-> 0,
     email_verification_code |-> NoCode, email_verification_expires_at |-> NoTime]

\* mutant of _get_linking_session: a query without the deadline
_get_linking_session_no_deadline(id) ==
    IF /\ id \in DOMAIN linking_sessions
       /\ ~ linking_sessions[id].completed
       /\ ~ linking_sessions[id].cancelled
    THEN {linking_sessions[id]}
    ELSE {}

\* _get_linking_session: the documents find_one can return for this id (none or one)
_get_linking_session(id) ==
    IF /\ id \in DOMAIN linking_sessions
       /\ linking_sessions[id].expires_at > now
       /\ ~ linking_sessions[id].completed
       /\ ~ linking_sessions[id].cancelled
    THEN {linking_sessions[id]}
    ELSE {}

\* _expire_linking_session: the collection after its update_one
_expire_linking_session(id) ==
    [linking_sessions EXCEPT ![id] = [@ EXCEPT !.expired = TRUE, !.status = "expired"]]

\* mutant of _verify_provider_identity: other accounts are not looked at
_verify_provider_identity_own_email(provider, oauth_id, oauth_email, user_email_hash) ==
    IF oauth_email = None THEN "no_email"
    ELSE IF hash_email(oauth_email) # user_email_hash THEN "email_mismatch"
    ELSE "verified"

\* _verify_provider_identity: "verified" or the reason of the refusal
_verify_provider_identity(provider, oauth_id, oauth_email, user_email_hash) ==
    IF oauth_email = None THEN "no_email"
    ELSE IF hash_email(oauth_email) # user_email_hash THEN "email_mismatch"
    ELSE IF \E v \in DOMAIN users :
                /\ users[v].oauth_providers[provider] = oauth_id
                /\ users[v].email_hash # user_email_hash
         THEN "already_linked_elsewhere"
    ELSE "verified"

\* mutant of _determine_verification_requirements: the password is never asked for
requirements_without_password(user) ==
    [email_verification_required |-> TRUE,
     password_verification_required |-> FALSE,
     steps |-> <<"email_verification">>]

\* _determine_verification_requirements: email always, password iff the user document
\* has one
_determine_verification_requirements(user) ==
    LET password_verification_required == user.password # NoPassword IN
    [email_verification_required |-> TRUE,
     password_verification_required |-> password_verification_required,
     steps |-> <<"email_verification">> \o
               (IF password_verification_required THEN <<"password_verification">>
                ELSE <<>>)]

\* _check_verification_status: read the user again, email always required
_check_verification_status(s) ==
    LET password_required == users[s.user_id].password # NoPassword IN
    [present |-> TRUE,
     email_required |-> TRUE, email_completed |-> s.email_verified,
     password_required |-> password_required, password_completed |-> s.password_verified]

\* mutant of all_verified: the password requirement is not looked at
all_verified_email_only(st) == ~ st.email_required \/ st.email_completed

all_verified(st) ==
    /\ (~ st.email_required \/ st.email_completed)
    /\ (~ st.password_required \/ st.password_completed)

\* mutant of attempts_exceeded: off by one
attempts_exceeded_late(attempts) == attempts > max_verification_attempts

\* the attempt-limit test of verify_email_for_linking and verify_password_for_linking
attempts_exceeded(attempts) == attempts >= max_verification_attempts

\* the client addresses that send requests
ClientIps == {"10.0.0.1", "10.0.0.2"}

\* the server process after start-up: the scheduler is not started, the rate limiter
\* and the validation cache are empty
InitProcess ==
    /\ running = FALSE
    /\ cleanup_thread = 0
    /\ threads = <<>>
    /\ requests = [ip \in ClientIps |-> <<>>]
    /\ admitted = [ip \in ClientIps |-> <<>>]
    /\ validation_cache = {}

LinkFrame == UNCHANGED <<now, pc, loc, Process>>

\* _log_linking_activity: insert_one into oauth_linking_audit (the timestamp and the
\* details of the entry are left out)
_log_linking_activity(user_id, action, provider) ==
    oauth_linking_audit' = oauth_linking_audit \cup
        {[user_id |-> user_id, action |-> action, provider |-> provider]}

initiate_account_linking(user_id, provider, oauth_id, oauth_email) ==
    /\ UNCHANGED <<wrong_submitted, wrong_passwords>>
    /\ link_seq + 1 \in LinkIds
    /\ LinkFrame
    /\ UNCHANGED <<users, oauth_sessions, sess_seq>>
    /\ LET user == users[user_id]
           v == _verify_provider_identity(provider, oauth_id, oauth_email, user.email_hash)
       IN  IF user.oauth_providers[provider] # None
           THEN /\ last' = Outcome("initiate", link_seq, "already_linked")
                /\ UNCHANGED <<linking_sessions, link_seq, oauth_linking_audit>>
           ELSE IF v # "verified"
           THEN /\ last' = Outcome("initiate", link_seq, v)
                /\ UNCHANGED <<linking_sessions, link_seq, oauth_linking_audit>>
           ELSE /\ linking_sessions' =
                       [i \in DOMAIN linking_sessions \cup {link_seq + 1} |->
                           IF i = link_seq + 1
                           THEN linking_doc(user_id, provider, oauth_id, oauth_email, now)
                           ELSE linking_sessions[i]]
                /\ link_seq' = link_seq + 1
                /\ _log_linking_activity(user_id, "linking_initiated", provider)
                /\ last' = [Outcome("initiate", link_seq + 1, "ok")
                               EXCEPT !.details = _determine_verification_requirements(user)]

send_email_verification(id, code, email_sent) ==
    /\ UNCHANGED <<wrong_submitted, wrong_passwords, oauth_linking_audit>>
    /\ LinkFrame
    /\ UNCHANGED <<users, oauth_sessions, sess_seq, link_seq>>
    /\ IF _get_linking_session(id) = {}
       THEN /\ last' = Outcome("send_email", id, "invalid_session")
            /\ UNCHANGED linking_sessions
       ELSE /\ linking_sessions' =
                   [linking_sessions EXCEPT ![id] =
                       [@ EXCEPT !.email_verification_code = code,
                                 !.email_verification_expires_at = now + verification_timeout]]
            /\ last' = Outcome("send_email", id, IF email_sent THEN "ok" ELSE "send_failed")

verify_email_for_linking(id, code) ==
    /\ LinkFrame
    /\ UNCHANGED <<users, oauth_sessions, sess_seq, link_seq>>
    /\ UNCHANGED wrong_passwords
    /\ wrong_submitted' =
          IF /\ _get_linking_session(id) # {}
             /\ linking_sessions[id].email_verification_code \notin {NoCode, code}
             /\ wrong_submitted[id] < max_verification_attempts
          THEN [wrong_submitted EXCEPT ![id] = @ + 1]
          ELSE wrong_submitted
    /\ IF _get_linking_session(id) = {}
       THEN /\ last' = [Outcome("verify_email", id, "invalid_session") EXCEPT !.arg = code]
            /\ UNCHANGED <<linking_sessions, oauth_linking_audit>>
       ELSE LET s == linking_sessions[id] IN
            IF attempts_exceeded(s.email_verification_attempts)
            THEN /\ linking_sessions' = _expire_linking_session(id)
                 /\ last' = [Outcome("verify_email", id, "max_attempts") EXCEPT !.arg = code]
                 /\ UNCHANGED oauth_linking_audit
            ELSE IF s.email_verification_code = NoCode
            THEN /\ last' = [Outcome("verify_email", id, "not_initiated") EXCEPT !.arg = code]
                 /\ UNCHANGED <<linking_sessions, oauth_linking_audit>>
            ELSE IF now > s.email_verification_expires_at
            THEN /\ last' = [Outcome("verify_email", id, "code_expired") EXCEPT !.arg = code]
                 /\ UNCHANGED <<linking_sessions, oauth_linking_audit>>
            ELSE IF s.email_verification_code # code
            THEN /\ linking_sessions' =
                        [linking_sessions EXCEPT ![id].email_verification_attempts = @ + 1]
                 /\ last' = [Outcome("verify_email", id, "invalid_code") EXCEPT !.arg = code]
                 /\ UNCHANGED oauth_linking_audit
            ELSE /\ linking_sessions' = [linking_sessions EXCEPT ![id].email_verified = TRUE]
                 /\ _log_linking_activity(s.user_id, "email_verified", s.provider)
                 /\ last' = [Outcome("verify_email", id, "ok") EXCEPT !.arg = code]

verify_password_for_linking(id, password) ==
    /\ UNCHANGED wrong_submitted
    /\ wrong_passwords' =
          IF /\ _get_linking_session(id) # {}
             /\ users[linking_sessions[id].user_id].password # NoPassword
             /\ ~ bcrypt_checkpw(password, users[linking_sessions[id].user_id].password)
             /\ wrong_passwords[id] < max_verification_attempts
          THEN [wrong_passwords EXCEPT ![id] = @ + 1]
          ELSE wrong_passwords
    /\ LinkFrame
    /\ UNCHANGED <<users, oauth_sessions, sess_seq, link_seq>>
    /\ IF _get_linking_session(id) = {}
       THEN /\ last' = Outcome("verify_password", id, "invalid_session")
            /\ UNCHANGED <<linking_sessions, oauth_linking_audit>>
       ELSE LET s == linking_sessions[id]
                stored_password == users[s.user_id].password
            IN
            IF attempts_exceeded(s.password_verification_attempts)
            THEN /\ linking_sessions' = _expire_linking_session(id)
                 /\ last' = Outcome("verify_password", id, "max_attempts")
                 /\ UNCHANGED oauth_linking_audit
            ELSE IF stored_password = NoPassword
            THEN /\ last' = Outcome("verify_password", id, "no_password")
                 /\ UNCHANGED <<linking_sessions, oauth_linking_audit>>
            ELSE IF ~ bcrypt_checkpw(password, stored_password)
            THEN /\ linking_sessions' =
                        [linking_sessions EXCEPT ![id].password_verification_attempts = @ + 1]
                 /\ last' = Outcome("verify_password", id, "invalid_password")
                 /\ UNCHANGED oauth_linking_audit
            ELSE /\ linking_sessions' = [linking_sessions EXCEPT ![id].password_verified = TRUE]
                 /\ _log_linking_activity(s.user_id, "password_verified", s.provider)
                 /\ last' = Outcome("verify_password", id, "ok")

complete_account_linking(id) ==
    /\ UNCHANGED <<wrong_submitted, wrong_passwords>>
    /\ LinkFrame
    /\ UNCHANGED link_seq
    /\ IF _get_linking_session(id) = {}
       THEN /\ last' = Outcome("complete", id, "invalid_session")
            /\ UNCHANGED <<users, oauth_sessions, sess_seq, linking_sessions,
                           oauth_linking_audit>>
       ELSE LET s == linking_sessions[id]
                st == _check_verification_status(s)
            IN
            IF ~ all_verified(st)
            THEN /\ last' = [Outcome("complete", id, "verification_incomplete")
                                EXCEPT !.details = st]
                 /\ UNCHANGED <<users, oauth_sessions, sess_seq, linking_sessions,
                                oauth_linking_audit>>
            ELSE IF ~ can_link_provider(users, s.user_id, s.provider, s.oauth_id)
            THEN /\ last' = Outcome("complete", id, "link_refused")
                 /\ UNCHANGED <<users, oauth_sessions, sess_seq, linking_sessions,
                                oauth_linking_audit>>
            ELSE /\ users' = link_update(users, s.user_id, s.provider, s.oauth_id)
                 /\ create_oauth_session(DictHandle, s.user_id, s.provider, s.oauth_id,
                                         "", default_expires_in)
                 /\ IF create_oauth_session_returns(DictHandle)
                    THEN /\ linking_sessions' =
                               [linking_sessions EXCEPT ![id] =
                                   [@ EXCEPT !.completed = TRUE, !.status = "success"]]
                         /\ _log_linking_activity(s.user_id, "linking_completed", s.provider)
                         /\ last' = Outcome("complete", id, "ok")
                    ELSE /\ UNCHANGED <<linking_sessions, oauth_linking_audit>>
                         /\ last' = Outcome("complete", id, "internal_error")

\* mutant of cancel_returns: a session that is not found is reported as a failure
cancel_returns_found(found) == found

\* the 'cancelled' field of the dict cancel_account_linking returns: True on every path
cancel_returns(found) == TRUE

cancel_account_linking(id) ==
    /\ UNCHANGED <<wrong_submitted, wrong_passwords>>
    /\ LinkFrame
    /\ UNCHANGED <<users, oauth_sessions, sess_seq, link_seq>>
    /\ IF _get_linking_session(id) = {}
       THEN /\ last' = [Outcome("cancel", id, "not_found")
                           EXCEPT !.arg = cancel_returns(FALSE)]
            /\ UNCHANGED <<linking_sessions, oauth_linking_audit>>
       ELSE /\ linking_sessions' =
                   [linking_sessions EXCEPT ![id] =
                       [@ EXCEPT !.cancelled = TRUE, !.status = "cancelled"]]
            /\ _log_linking_activity(linking_sessions[id].user_id, "linking_cancelled",
                                     linking_sessions[id].provider)
            /\ last' = [Outcome("cancel", id, "ok") EXCEPT !.arg = cancel_returns(TRUE)]

\* db.update_password: the reset-password route stores a new hash
update_password(user_id, password) ==
    /\ UNCHANGED <<wrong_submitted, wrong_passwords>>
    /\ LinkFrame
    /\ users' = [users EXCEPT ![user_id].password = bcrypt_hash(password)]
    /\ last' = Outcome("update_password", 0, "ok")
    /\ UNCHANGED <<oauth_sessions, sess_seq, linking_sessions, oauth_linking_audit, link_seq>>

\* time passes, one code lifetime at a step
Tick ==
    /\ now < MaxTicks * verification_timeout
    /\ now' = now + verification_timeout
    /\ UNCHANGED Process
    /\ UNCHANGED <<users, oauth_sessions, sess_seq, linking_sessions, oauth_linking_audit,
                   link_seq, last, wrong_submitted,
                   wrong_passwords, pc, loc>>

NoCall == Outcome("none", 0, "none")

\* u1 signed up with a password and linked both providers; u2 signed up through
\* GitHub and has no password
InitUsers ==
    [u \in UserIds |->
        IF u = 1
        THEN user_doc("a@x", bcrypt_hash("pw1"),
                      [p \in Providers |-> "s1"], {"email"} \cup Providers)
        ELSE user_doc("b@x", NoPassword, [NoLinks EXCEPT !["github"] = "s2"], {"github"})]

Init ==
    /\ users = InitUsers
    /\ oauth_sessions = <<>>
    /\ sess_seq = 0
    /\ linking_sessions = <<>>
    /\ oauth_linking_audit = {}
    /\ link_seq = 0
    /\ now = 0
    /\ last = NoCall
    /\ InitProcess
    /\ wrong_submitted = [id \in LinkIds |-> 0]
    /\ wrong_passwords = [id \in LinkIds |-> 0]
    /\ pc = <<>>
    /\ loc = <<>>

Next ==
    \/ \E u \in UserIds, p \in Providers, i \in SubjectIds, e \in Emails \cup {None} :
           initiate_account_linking(u, p, i, e)
    \/ \E id \in LinkIds, c \in Codes, sent \in BOOLEAN : send_email_verification(id, c, sent)
    \/ \E id \in LinkIds, c \in Guesses : verify_email_for_linking(id, c)
    \/ \E id \in LinkIds, pw \in Passwords : verify_password_for_linking(id, pw)
    \/ \E id \in LinkIds : complete_account_linking(id)
    \/ \E id \in LinkIds : cancel_account_linking(id)
    \/ \E u \in UserIds : update_password(u, "pw1")
    \/ Tick

Spec == Init /\ [][Next]_vars

(* SpecLinkSweep: cleanup_expired_linking_sessions next to cancel and the sending *)
(* of codes, on two linking sessions with different deadlines                     *)

\* mutant of SweptLinking: a session at its deadline is removed as well
SweptLinkingUpTo(L, cutoff_date) ==
    {i \in DOMAIN L :
        \/ L[i].expires_at <= cutoff_date
        \/ L[i].completed /\ L[i].created_at < cutoff_date - seconds_per_day
        \/ L[i].cancelled /\ L[i].created_at < cutoff_date - seconds_per_day}

\* the documents the filter of delete_many matches: past the deadline, or completed
\* or cancelled and created more than a day ago
SweptLinking(L, cutoff_date) ==
    {i \in DOMAIN L :
        \/ L[i].expires_at < cutoff_date
        \/ L[i].completed /\ L[i].created_at < cutoff_date - seconds_per_day
        \/ L[i].cancelled /\ L[i].created_at < cutoff_date - seconds_per_day}

\* cleanup_expired_linking_sessions: one delete_many; returns deleted_count (in arg)
cleanup_expired_linking_sessions ==
    /\ LinkFrame
    /\ UNCHANGED <<users, oauth_sessions, sess_seq, link_seq, oauth_linking_audit,
                   wrong_submitted, wrong_passwords>>
    /\ linking_sessions' =
          [i \in DOMAIN linking_sessions \ SweptLinking(linking_sessions, now) |->
              linking_sessions[i]]
    /\ last' = [Outcome("cleanup_linking_sessions", 0, "ok")
                   EXCEPT !.arg = Cardinality(SweptLinking(linking_sessions, now))]

\* time passes, one linking deadline at a step
TickDeadline ==
    /\ now < MaxTicks * linking_session_timeout
    /\ now' = now + linking_session_timeout
    /\ UNCHANGED Process
    /\ UNCHANGED <<users, oauth_sessions, sess_seq, linking_sessions, oauth_linking_audit,
                   link_seq, last, wrong_submitted, wrong_passwords, pc, loc>>

\* user 1 started linking at 0 and user 2 one code lifetime later, which is now
InitLinkSweep ==
    /\ users = [u \in UserIds |->
                   IF u = 1
                   THEN user_doc("a@x", bcrypt_hash("pw1"), NoLinks, {"email"})
                   ELSE user_doc("b@x", NoPassword, [NoLinks EXCEPT !["google"] = "s2"],
                                 {"google"})]
    /\ oauth_sessions = <<>>
    /\ sess_seq = 0
    /\ linking_sessions =
          [id \in RaceLinkIds |->
              linking_doc(id, "github", IF id = 1 THEN "s1" ELSE "s2",
                          IF id = 1 THEN "a@x" ELSE "b@x", (id - 1) * verification_timeout)]
    /\ oauth_linking_audit =
          {[user_id |-> u, action |-> "linking_initiated", provider |-> "github"] :
               u \in UserIds}
    /\ link_seq = Cardinality(RaceLinkIds)
    /\ now = verification_timeout
    /\ last = NoCall
    /\ InitProcess
    /\ wrong_submitted = [id \in LinkIds |-> 0]
    /\ wrong_passwords = [id \in LinkIds |-> 0]
    /\ pc = <<>>
    /\ loc = <<>>

NextLinkSweep ==
    \/ cleanup_expired_linking_sessions
    \/ \E id \in RaceLinkIds : cancel_account_linking(id)
    \/ \E id \in RaceLinkIds, c \in Codes, sent \in BOOLEAN :
           send_email_verification(id, c, sent)
    \/ Tick
    \/ TickDeadline

SpecLinkSweep == InitLinkSweep /\ [][NextLinkSweep]_vars

----------------------------------------------------------------------------
(* SpecSession: the handlers of OAuthSessionManager, one call per step *)

SessionIds == 1..(MaxSessions + 1)
Reasons == {"user_logout", "security_revocation"}

SessionFrame ==
    UNCHANGED <<users, linking_sessions, oauth_linking_audit, link_seq, now,
                wrong_submitted, wrong_passwords, pc, loc, Process>>

\* models.create_oauth_session called with the database object
session_create(user_id, provider, provider_user_id, token, expires_in) ==
    /\ sess_seq < MaxSessions
    /\ create_oauth_session(DatabaseHandle, user_id, provider, provider_user_id,
                            token, expires_in)
    /\ last' = Outcome("create_session", sess_seq + 1, "ok")
    /\ SessionFrame

\* revoke_session: find_one by _id, then $set of is_active, revoked_at and reason;
\* True iff the update modified the document
revoke_session(id, reason) ==
    /\ SessionFrame
    /\ UNCHANGED sess_seq
    /\ IF id \notin DOMAIN oauth_sessions
       THEN /\ last' = Outcome("revoke_session", id, "false")
            /\ UNCHANGED oauth_sessions
       ELSE /\ oauth_sessions' = revoke_update(oauth_sessions, id, reason, now)
            /\ last' = Outcome("revoke_session", id,
                               IF oauth_sessions' # oauth_sessions THEN "true" ELSE "false")

\* mutant of is_token_expired: the instant expires_at itself still counts as live
is_token_expired_after(s, t) == t > s.expires_at

\* is_token_expired: the token is expired from expires_at on
is_token_expired(s, t) == t >= s.expires_at

\* _expire_session: the collection after its update_one
_expire_session(S, id, reason, t) ==
    [S EXCEPT ![id] = [@ EXCEPT !.is_active = FALSE, !.expired_at = t,
                                !.expiration_reason = reason]]

\* get_session: any active session of the user and provider; an expired one is
\* marked expired and not returned, a live one gets last_used = now
get_session(user_id, provider) ==
    /\ SessionFrame
    /\ UNCHANGED sess_seq
    /\ IF ActiveSessions(oauth_sessions, user_id, provider) = {}
       THEN /\ last' = Outcome("get_session", 0, "none")
            /\ UNCHANGED oauth_sessions
       ELSE \E id \in ActiveSessions(oauth_sessions, user_id, provider) :
               IF is_token_expired(oauth_sessions[id], now)
               THEN /\ oauth_sessions' = _expire_session(oauth_sessions, id, "token_expired", now)
                    /\ last' = Outcome("get_session", id, "none")
               ELSE /\ oauth_sessions' = [oauth_sessions EXCEPT ![id].last_used = now]
                    /\ last' = Outcome("get_session", id, "ok")

\* mutant of refresh_count_after: the counter is written back as it was read
refresh_count_same(session) == session.refresh_count

\* session.get('refresh_count', 0) + 1
refresh_count_after(session) == session.refresh_count + 1

\* the update_one of refresh_session: $set of the whole new token record, which
\* carries created_at, last_used and is_active, and of refreshed_at and refresh_count
refresh_update(S, id, new_access_token, new_refresh_token, expires_in, t) ==
    LET r == create_secure_token_record(new_access_token, S[id].provider, expires_in,
                                        new_refresh_token, t)
    IN  [S EXCEPT ![id] =
            [@ EXCEPT !.access_token_hash = r.access_token_hash,
                      !.refresh_token_hash = r.refresh_token_hash,
                      !.provider = r.provider,
                      !.expires_at = r.expires_at,
                      !.created_at = r.created_at,
                      !.last_used = r.last_used,
                      !.is_active = r.is_active,
                      !.refreshed_at = t,
                      !.refresh_count = refresh_count_after(S[id])]]

\* refresh_session: get_session_by_id (which marks an expired session and returns
\* None), then the update; True iff the update modified the document
refresh_session(id, new_access_token, new_refresh_token, expires_in) ==
    /\ SessionFrame
    /\ UNCHANGED sess_seq
    /\ id \in DOMAIN oauth_sessions => oauth_sessions[id].refresh_count < MaxRefreshes
    /\ IF id \notin DOMAIN oauth_sessions
       THEN /\ last' = Outcome("refresh_session", id, "false")
            /\ UNCHANGED oauth_sessions
       ELSE IF ~ oauth_sessions[id].is_active
       THEN /\ last' = Outcome("refresh_session", id, "false")
            /\ UNCHANGED oauth_sessions
       ELSE IF is_token_expired(oauth_sessions[id], now)
       THEN /\ oauth_sessions' = _expire_session(oauth_sessions, id, "token_expired", now)
            /\ last' = Outcome("refresh_session", id, "false")
       ELSE /\ oauth_sessions' = refresh_update(oauth_sessions, id, new_access_token,
                                                new_refresh_token, expires_in, now)
            /\ last' = Outcome("refresh_session", id,
                               IF oauth_sessions' # oauth_sessions THEN "true" ELSE "false")

\* find({'user_id'})
UserSessions(S, user_id) == {i \in DOMAIN S : S[i].user_id = user_id}

\* mutant of ActiveUserSessions: the query has no user_id
ActiveSessionsOfAnyUser(S, user_id) == {i \in DOMAIN S : S[i].is_active}

\* find({'user_id', 'is_active': True})
ActiveUserSessions(S, user_id) == {i \in UserSessions(S, user_id) : S[i].is_active}

\* update_many({'_id': {'$in': ids}}, $set of is_active, expired_at, expiration_reason)
expire_many(S, ids, t) ==
    [i \in DOMAIN S |->
        IF i \in ids
        THEN [S[i] EXCEPT !.is_active = FALSE, !.expired_at = t,
                          !.expiration_reason = "token_expired"]
        ELSE S[i]]

\* get_user_sessions: the documents returned (arg holds their ids; the order of the
\* list, newest first, is not modelled); with active_only the expired ones among the
\* active are marked and left out
get_user_sessions(user_id, active_only) ==
    /\ SessionFrame
    /\ UNCHANGED sess_seq
    /\ IF ~ active_only
       THEN /\ last' = [Outcome("get_user_sessions", user_id, "all")
                           EXCEPT !.arg = UserSessions(oauth_sessions, user_id)]
            /\ UNCHANGED oauth_sessions
       ELSE LET sessions == ActiveUserSessions(oauth_sessions, user_id)
                expired_session_ids ==
                    {i \in sessions : is_token_expired(oauth_sessions[i], now)}
            IN  /\ oauth_sessions' = expire_many(oauth_sessions, expired_session_ids, now)
                /\ last' = [Outcome("get_user_sessions", user_id, "active")
                               EXCEPT !.arg = sessions \ expired_session_ids]

\* mutant of ExpiredBefore: sessions at their expires_at are swept as well
ExpiredUpTo(S, t) == {i \in DOMAIN S : S[i].is_active /\ S[i].expires_at <= t}

\* find({'is_active': True, 'expires_at': {'$lt': now}})
ExpiredBefore(S, t) == {i \in DOMAIN S : S[i].is_active /\ S[i].expires_at < t}

\* cleanup_expired_sessions: find, then update_many; returns modified_count (in arg)
cleanup_expired_sessions ==
    /\ SessionFrame
    /\ UNCHANGED sess_seq
    /\ oauth_sessions' = expire_many(oauth_sessions, ExpiredBefore(oauth_sessions, now), now)
    /\ last' = [Outcome("cleanup_expired_sessions", 0, "ok")
                   EXCEPT !.arg = Cardinality(ExpiredBefore(oauth_sessions, now))]

\* the documents delete_many({'is_active': False, 'created_at': {'$lt': cutoff}}) removes
OldInactive(S, cutoff_date) == {i \in DOMAIN S : ~ S[i].is_active /\ S[i].created_at < cutoff_date}

\* cleanup_old_sessions: returns deleted_count (in arg)
cleanup_old_sessions(days_old) ==
    /\ SessionFrame
    /\ UNCHANGED sess_seq
    /\ LET old == OldInactive(oauth_sessions, now - days_old * seconds_per_day) IN
       /\ oauth_sessions' = [i \in DOMAIN oauth_sessions \ old |-> oauth_sessions[i]]
       /\ last' = [Outcome("cleanup_old_sessions", 0, "ok") EXCEPT !.arg = Cardinality(old)]

\* retention windows a caller passes: none, and the default
RetentionDays == {0, default_days_old}

NextSession ==
    \/ \E p \in Providers, ttl \in TokenLifetimes :
           session_create(1, p, "s1", "t1", ttl)
    \/ \E id \in SessionIds, reason \in Reasons : revoke_session(id, reason)
    \/ \E p \in Providers : get_session(1, p)
    \/ Tick

SpecSession == Init /\ [][NextSession]_vars

(* SpecSessionSweep: token refresh, listing and the two sweeps, one call per step *)

NextSessionSweep ==
    \/ \E u \in UserIds, ttl \in TokenLifetimes :
           session_create(u, "github", users[u].oauth_providers["github"], "t1", ttl)
    \/ \E id \in SessionIds, ttl \in TokenLifetimes : refresh_session(id, "t2", "t2", ttl)
    \/ \E u \in UserIds, active_only \in BOOLEAN : get_user_sessions(u, active_only)
    \/ cleanup_expired_sessions
    \/ \E days_old \in RetentionDays : cleanup_old_sessions(days_old)
    \/ Tick

SpecSessionSweep == Init /\ [][NextSessionSweep]_vars

(* SpecCap: create_session next to the per-(user, provider) limit, one call per step *)

\* user 1 has signed in with Google max_sessions_per_user - 1 times, once a second
InitCap ==
    /\ users = InitUsers
    /\ oauth_sessions = [i \in 1..(max_sessions_per_user - 1) |->
                            session_doc(1, "google", "s1", "t1", None, default_expires_in, i)]
    /\ sess_seq = max_sessions_per_user - 1
    /\ linking_sessions = <<>>
    /\ oauth_linking_audit = {}
    /\ link_seq = 0
    /\ now = max_sessions_per_user - 1
    /\ last = NoCall
    /\ InitProcess
    /\ wrong_submitted = [id \in LinkIds |-> 0]
    /\ wrong_passwords = [id \in LinkIds |-> 0]
    /\ pc = <<>>
    /\ loc = <<>>

\* models.create_oauth_session called with the database object, for a user who
\* already has sessions
cap_create(user_id, provider, provider_user_id, token, expires_in) ==
    /\ sess_seq < max_sessions_per_user + MaxSessions
    /\ create_oauth_session(DatabaseHandle, user_id, provider, provider_user_id,
                            token, expires_in)
    /\ last' = Outcome("create_session", sess_seq + 1, "ok")
    /\ SessionFrame

\* the steps of create_session at which an exception can arise
CreateFailures == {"hash_token", "insert_one"}

\* create_session when hash_token raises (SecurityException out of
\* create_secure_token_record, before any query) or when insert_one raises (after
\* _enforce_session_limits has run): the except branch raises INTERNAL_ERROR
create_session_fails(failure, user_id, provider) ==
    /\ SessionFrame
    /\ UNCHANGED sess_seq
    /\ oauth_sessions' \in
          IF failure = "hash_token"
          THEN {oauth_sessions}
          ELSE _enforce_session_limits(oauth_sessions, user_id, provider, now)
    /\ last' = [Outcome("create_session", 0, "internal_error") EXCEPT !.arg = failure]

NextCap ==
    \/ \E f \in CreateFailures, p \in Providers : create_session_fails(f, 1, p)
    \/ \E p \in Providers : cap_create(1, p, "s1", "t1", default_expires_in)
    \/ \E id \in 1..MaxSessions : revoke_session(id, "user_logout")
    \/ Tick

SpecCap == InitCap /\ [][NextCap]_vars

(* SpecStorage: the session operations against a store that may be unreachable.  *)
(* Each handler wraps its body in try / except Exception: when the first database *)
(* call raises, the handler logs the error and returns its negative value.         *)

\* the except branch of a handler: nothing is written, `result` is returned
storage_error_return(op, id, result) ==
    /\ SessionFrame
    /\ UNCHANGED <<oauth_sessions, sess_seq>>
    /\ last' = Outcome(op, id, result)

\* get_session with the store reachable (up) or not: except returns None
get_session_call(up, user_id, provider) ==
    IF up THEN get_session(user_id, provider)
    ELSE storage_error_return("get_session", 0, "none")

\* refresh_session: except returns False
refresh_session_call(up, id, new_access_token, new_refresh_token, expires_in) ==
    IF up THEN refresh_session(id, new_access_token, new_refresh_token, expires_in)
    ELSE storage_error_return("refresh_session", id, "false")

\* revoke_session: except returns False
revoke_session_call(up, id, reason) ==
    IF up THEN revoke_session(id, reason)
    ELSE storage_error_return("revoke_session", id, "false")

\* get_user_sessions: except returns []
get_user_sessions_call(up, user_id, active_only) ==
    IF up THEN get_user_sessions(user_id, active_only)
    ELSE /\ SessionFrame
         /\ UNCHANGED <<oauth_sessions, sess_seq>>
         /\ last' = [Outcome("get_user_sessions", user_id,
                             IF active_only THEN "active" ELSE "all") EXCEPT !.arg = {}]

NextStorage ==
    \/ session_create(1, "google", "s1", "t1", verification_timeout)
    \/ \E up \in BOOLEAN : get_session_call(up, 1, "google")
    \/ \E up \in BOOLEAN, id \in SessionIds :
           refresh_session_call(up, id, "t2", "t2", default_expires_in)
    \/ \E up \in BOOLEAN, id \in SessionIds : revoke_session_call(up, id, "user_logout")
    \/ \E up \in BOOLEAN, active_only \in BOOLEAN :
           get_user_sessions_call(up, 1, active_only)
    \/ Tick

SpecStorage == Init /\ [][NextStorage]_vars

----------------------------------------------------------------------------
(* SpecAccounts: the sign-in routes and the link / unlink routes, one request per step *)

NoHash == <<None>>

\* users.find_one({"email_hash": hash_email(email)}): the documents it can return
find_user_by_email(U, email) == {v \in DOMAIN U : U[v].email_hash = hash_email(email)}

\* users.find_one({"oauth_providers.<provider>.id": id}): the documents it can return
get_user_by_oauth_provider(U, provider, provider_user_id) ==
    {v \in DOMAIN U : U[v].oauth_providers[provider] = provider_user_id}

\* OAuthErrorHandler.check_account_conflict raises unless the attempted provider is
\* among the existing methods ("email" with a password, and the linked providers)
check_account_conflict_raises(user, attempted_provider) ==
    attempted_provider \notin
        (IF user.password # NoPassword THEN {"email"} ELSE {})
            \cup {p \in Providers : user.oauth_providers[p] # None}

\* models.link_oauth_provider builds {"$set": update_doc}; when the provider is not in
\* login_methods, update_doc carries a "$addToSet" key, which the server refuses
models_link_writes(user, provider) == provider \in user.login_methods

\* models.link_oauth_provider: the $set of oauth_providers.<provider>
models_link_oauth_provider(U, v, provider, provider_user_id) ==
    [U EXCEPT ![v].oauth_providers[provider] = provider_user_id]

\* models.create_user for an OAuth sign-up: the document has "email", no "email_hash"
\* and no password
create_user(U, provider, provider_user_id) ==
    [v \in DOMAIN U \cup {Cardinality(DOMAIN U) + 1} |->
        IF v \in DOMAIN U THEN U[v]
        ELSE [email_hash |-> NoHash, password |-> NoPassword,
              oauth_providers |-> [NoLinks EXCEPT ![provider] = provider_user_id],
              login_methods |-> {provider}]]

AccountFrame ==
    UNCHANGED <<linking_sessions, oauth_linking_audit, link_seq, now, wrong_submitted,
                wrong_passwords, pc, loc, Process>>

\* the body shared by google_oauth and github_oauth
oauth_route(provider, provider_user_id, email, token, expires_in) ==
    /\ AccountFrame
    /\ sess_seq < MaxSessions
    /\ IF email = None
       THEN /\ last' = Outcome(provider, 0, "email_not_available")
            /\ UNCHANGED <<users, oauth_sessions, sess_seq>>
       ELSE IF get_user_by_oauth_provider(users, provider, provider_user_id) # {}
       THEN \E v \in get_user_by_oauth_provider(users, provider, provider_user_id) :
               /\ create_oauth_session(DatabaseHandle, v, provider, provider_user_id,
                                       token, expires_in)
               /\ last' = Outcome(provider, v, "ok")
               /\ UNCHANGED users
       ELSE IF find_user_by_email(users, email) # {}
       THEN \E v \in find_user_by_email(users, email) :
               IF check_account_conflict_raises(users[v], provider)
               THEN /\ last' = Outcome(provider, v, "account_conflict")
                    /\ UNCHANGED <<users, oauth_sessions, sess_seq>>
               ELSE IF ~ models_link_writes(users[v], provider)
               THEN /\ last' = Outcome(provider, v, "internal_error")
                    /\ UNCHANGED <<users, oauth_sessions, sess_seq>>
               ELSE /\ users' = models_link_oauth_provider(users, v, provider, provider_user_id)
                    /\ create_oauth_session(DatabaseHandle, v, provider, provider_user_id,
                                            token, expires_in)
                    /\ last' = Outcome(provider, v, "ok")
       ELSE \* the new document has no email_hash: find_user_by_email returns None and
            \* user['_id'] raises
            /\ Cardinality(DOMAIN users) < MaxUsers
            /\ users' = create_user(users, provider, provider_user_id)
            /\ last' = Outcome(provider, Cardinality(DOMAIN users) + 1, "internal_error")
            /\ UNCHANGED <<oauth_sessions, sess_seq>>

google_oauth(google_id, email, token) ==
    oauth_route("google", google_id, email, token, default_expires_in)

github_oauth(github_id, email, access_token) ==
    oauth_route("github", github_id, email, access_token, github_expires_in)

\* AccountMerger.check_account_conflict: the account with this e-mail holds the
\* provider with another id
provider_account_mismatch(U, email, provider, provider_user_id) ==
    \E v \in find_user_by_email(U, email) :
        /\ U[v].oauth_providers[provider] # None
        /\ U[v].oauth_providers[provider] # provider_user_id

\* POST /api/oauth/link by the logged-in user user_id
route_link_oauth_provider(user_id, provider, provider_user_id, email) ==
    /\ AccountFrame
    /\ user_id \in DOMAIN users
    /\ users[user_id].email_hash # NoHash
    /\ UNCHANGED <<oauth_sessions, sess_seq>>
    /\ IF email = None
       THEN /\ last' = Outcome("link", user_id, "internal_error")
            /\ UNCHANGED users
       ELSE IF provider_account_mismatch(users, email, provider, provider_user_id)
       THEN /\ last' = Outcome("link", user_id, "provider_account_mismatch")
            /\ UNCHANGED users
       ELSE IF ~ can_link_provider(users, user_id, provider, provider_user_id)
       THEN /\ last' = Outcome("link", user_id, "link_refused")
            /\ UNCHANGED users
       ELSE /\ users' = link_update(users, user_id, provider, provider_user_id)
            /\ last' = Outcome("link", user_id, "ok")

\* AccountMerger.unlink_oauth_provider: "ok", or the reason of the refusal
unlink_check(user, provider) ==
    IF user.oauth_providers[provider] = None THEN "not_linked"
    ELSE IF /\ {p \in Providers \ {provider} : user.oauth_providers[p] # None} = {}
            /\ user.password = NoPassword
    THEN "last_method"
    ELSE "ok"

\* the update_one of AccountMerger.unlink_oauth_provider ($unset the link, $pull the method)
unlink_update(U, user_id, provider) ==
    [U EXCEPT ![user_id] = [@ EXCEPT !.oauth_providers[provider] = None,
                                     !.login_methods = @ \ {provider}]]

\* oauth_sessions.delete_many({'user_id', 'provider'})
delete_sessions(S, user_id, provider) ==
    [i \in {j \in DOMAIN S : ~ (S[j].user_id = user_id /\ S[j].provider = provider)} |-> S[i]]

\* POST /api/oauth/unlink by the logged-in user user_id
route_unlink_oauth_provider(user_id, provider) ==
    /\ AccountFrame
    /\ user_id \in DOMAIN users
    /\ users[user_id].email_hash # NoHash
    /\ UNCHANGED sess_seq
    /\ last' = Outcome("unlink", user_id, unlink_check(users[user_id], provider))
    /\ IF unlink_check(users[user_id], provider) = "ok"
       THEN /\ users' = unlink_update(users, user_id, provider)
            /\ oauth_sessions' = delete_sessions(oauth_sessions, user_id, provider)
       ELSE UNCHANGED <<users, oauth_sessions>>

\* mutant of existing_providers: the password is not counted as a method
existing_providers_oauth_only(user) == {p \in Providers : user.oauth_providers[p] # None}

\* AccountMerger.check_account_conflict: 'email' when the account has a password, and
\* the keys of oauth_providers
existing_providers(user) ==
    (IF user.password # NoPassword THEN {"email"} ELSE {})
        \cup {p \in Providers : user.oauth_providers[p] # None}

\* AccountMerger.check_account_conflict on the document find_user_by_email returned:
\* the 'type' of the conflict, None when it returns None
conflict_type(existing_user, provider, provider_user_id) ==
    IF existing_user.oauth_providers[provider] # None
    THEN IF existing_user.oauth_providers[provider] = provider_user_id
         THEN None
         ELSE "provider_account_mismatch"
    ELSE IF existing_providers(existing_user) # {}
         THEN "account_exists"
         ELSE None

\* AccountMerger.check_account_conflict(email, provider, provider_user_id); last.id is
\* the account found (0 when there is none) and last.arg the arguments
check_account_conflict(email, provider, provider_user_id) ==
    /\ AccountFrame
    /\ UNCHANGED <<users, oauth_sessions, sess_seq>>
    /\ IF find_user_by_email(users, email) = {}
       THEN last' = [Outcome("check_conflict", 0, None)
                        EXCEPT !.arg = <<email, provider, provider_user_id>>]
       ELSE \E v \in find_user_by_email(users, email) :
                last' = [Outcome("check_conflict", v,
                                 conflict_type(users[v], provider, provider_user_id))
                            EXCEPT !.arg = <<email, provider, provider_user_id>>]

NextAccounts ==
    \/ \E e \in Emails, p \in Providers, i \in SubjectIds : check_account_conflict(e, p, i)
    \/ \E i \in SubjectIds, e \in Emails : google_oauth(i, e, "t1")
    \/ \E i \in SubjectIds, e \in Emails \cup {None} : github_oauth(i, e, "t1")
    \/ \E u \in UserIds, p \in Providers, i \in SubjectIds, e \in Emails \cup {None} :
           route_link_oauth_provider(u, p, i, e)
    \/ \E u \in UserIds, p \in Providers : route_unlink_oauth_provider(u, p)

SpecAccounts == Init /\ [][NextAccounts]_vars

----------------------------------------------------------------------------
(* Interleaved requests: a request is at pc[r] with the locals loc[r]; one step is *)
(* one query or update of the database.  A request runs one operation.            *)

IdleLoc ==
    [op |-> "none", user_id |-> 0, provider |-> None, oauth_id |-> None, token |-> None,
     expires_in |-> 0, t |-> NoTime, session |-> 0, link |-> 0, result |-> None,
     ids |-> {}, count |-> 0]

InitRequests ==
    /\ pc = [r \in Requests |-> "idle"]
    /\ loc = [r \in Requests |-> IdleLoc]

Goto(r, label) == pc' = [pc EXCEPT ![r] = label]

\* the request ends with this outcome
Return(r, op, id, result) ==
    /\ pc' = [pc EXCEPT ![r] = "done"]
    /\ loc' = [loc EXCEPT ![r].result = result]
    /\ last' = Outcome(op, id, result)

RaceFrame ==
    UNCHANGED <<now, wrong_submitted, wrong_passwords, link_seq, oauth_linking_audit, Process>>

(* SpecCreateRace: create_session, as the sign-in routes call it *)

\* create_session up to the count_documents of _enforce_session_limits; the token
\* record, with created_at, is built before
create_count(r, user_id, provider, provider_user_id, token, expires_in) ==
    /\ pc[r] = "idle"
    /\ loc' = [loc EXCEPT ![r] =
                  [IdleLoc EXCEPT !.op = "create", !.user_id = user_id, !.provider = provider,
                                  !.oauth_id = provider_user_id, !.token = token,
                                  !.expires_in = expires_in, !.t = now]]
    /\ Goto(r, IF Cardinality(ActiveSessions(oauth_sessions, user_id, provider))
                      >= max_sessions_per_user
               THEN "find_oldest" ELSE "insert")
    /\ RaceFrame
    /\ UNCHANGED <<users, oauth_sessions, sess_seq, linking_sessions, last>>

\* _enforce_session_limits: find_one of the oldest active session
enforce_find_oldest(r) ==
    /\ pc[r] = "find_oldest"
    /\ LET oldest == OldestActive(oauth_sessions, loc[r].user_id, loc[r].provider) IN
       IF oldest = {}
       THEN Goto(r, "insert") /\ UNCHANGED loc
       ELSE \E i \in oldest : /\ loc' = [loc EXCEPT ![r].session = i]
                              /\ Goto(r, "revoke_find")
    /\ RaceFrame
    /\ UNCHANGED <<users, oauth_sessions, sess_seq, linking_sessions, last>>

\* revoke_session: find_one by _id
revoke_find(r) ==
    /\ pc[r] = "revoke_find"
    /\ Goto(r, IF loc[r].session \in DOMAIN oauth_sessions THEN "revoke_write" ELSE "insert")
    /\ RaceFrame
    /\ UNCHANGED <<users, oauth_sessions, sess_seq, linking_sessions, last, loc>>

\* revoke_session: update_one by _id
revoke_write(r) ==
    /\ pc[r] = "revoke_write"
    /\ oauth_sessions' =
          IF loc[r].session \in DOMAIN oauth_sessions
          THEN revoke_update(oauth_sessions, loc[r].session, "session_limit_exceeded", now)
          ELSE oauth_sessions
    /\ Goto(r, "insert")
    /\ RaceFrame
    /\ UNCHANGED <<users, sess_seq, linking_sessions, last, loc>>

\* create_session: insert_one
create_insert(r) ==
    /\ pc[r] = "insert"
    /\ oauth_sessions' =
          insert_session(oauth_sessions, sess_seq,
              session_doc(loc[r].user_id, loc[r].provider, loc[r].oauth_id, loc[r].token,
                          None, loc[r].expires_in, loc[r].t))
    /\ sess_seq' = sess_seq + 1
    /\ Return(r, "create_session", sess_seq + 1, "ok")
    /\ RaceFrame
    /\ UNCHANGED <<users, linking_sessions>>

\* user 1 has signed in with Google max_sessions_per_user - 1 times
InitCreateRace ==
    /\ users = InitUsers
    /\ oauth_sessions = [i \in 1..(max_sessions_per_user - 1) |->
                            session_doc(1, "google", "s1", "t1", None, default_expires_in, 0)]
    /\ sess_seq = max_sessions_per_user - 1
    /\ linking_sessions = <<>>
    /\ oauth_linking_audit = {}
    /\ link_seq = 0
    /\ now = 0
    /\ last = NoCall
    /\ InitProcess
    /\ wrong_submitted = [id \in LinkIds |-> 0]
    /\ wrong_passwords = [id \in LinkIds |-> 0]
    /\ InitRequests

NextCreateRace ==
    \/ \E r \in Requests, u \in UserIds, p \in Providers, t \in Tokens :
           /\ users[u].oauth_providers[p] # None
           /\ create_count(r, u, p, users[u].oauth_providers[p], t, default_expires_in)
    \/ \E r \in Requests : enforce_find_oldest(r)
    \/ \E r \in Requests : revoke_find(r)
    \/ \E r \in Requests : revoke_write(r)
    \/ \E r \in Requests : create_insert(r)

SpecCreateRace == InitCreateRace /\ [][NextCreateRace]_vars

(* SpecRefreshRace: refresh_session next to revoke_session, get_session,            *)
(* get_user_sessions and cleanup_expired_sessions on the same sessions               *)

SessionRaceFrame == RaceFrame /\ UNCHANGED <<users, sess_seq, linking_sessions>>

\* refresh_session: the find_one of get_session_by_id ({'_id', 'is_active': True}) and
\* its expiry check on the document read
refresh_find(r, id, new_access_token, expires_in) ==
    /\ pc[r] = "idle"
    /\ SessionRaceFrame
    /\ UNCHANGED oauth_sessions
    /\ IF id \notin DOMAIN oauth_sessions \/ ~ oauth_sessions[id].is_active
       THEN Return(r, "refresh_session", id, "false")
       ELSE /\ loc' = [loc EXCEPT ![r] =
                          [IdleLoc EXCEPT !.op = "refresh", !.session = id,
                                          !.provider = oauth_sessions[id].provider,
                                          !.token = new_access_token,
                                          !.expires_in = expires_in,
                                          !.count = oauth_sessions[id].refresh_count]]
            /\ Goto(r, IF is_token_expired(oauth_sessions[id], now)
                       THEN "refresh_expire" ELSE "refresh_build")
            /\ UNCHANGED last

\* get_session_by_id found the token expired: the update_one of _expire_session
refresh_expire(r) ==
    /\ pc[r] = "refresh_expire"
    /\ SessionRaceFrame
    /\ oauth_sessions' = IF loc[r].session \in DOMAIN oauth_sessions
                         THEN _expire_session(oauth_sessions, loc[r].session, "token_expired", now)
                         ELSE oauth_sessions
    /\ Return(r, "refresh_session", loc[r].session, "false")

\* refresh_session: create_secure_token_record and update_doc read the clock
refresh_build(r) ==
    /\ pc[r] = "refresh_build"
    /\ SessionRaceFrame
    /\ loc' = [loc EXCEPT ![r].t = now]
    /\ Goto(r, "refresh_write")
    /\ UNCHANGED <<oauth_sessions, last>>

\* refresh_session: update_one({'_id': session_id}, {'$set': update_doc}); the filter
\* has no is_active, update_doc carries is_active = True
refresh_write(r) ==
    /\ pc[r] = "refresh_write"
    /\ SessionRaceFrame
    /\ oauth_sessions' =
          IF loc[r].session \in DOMAIN oauth_sessions
          THEN [refresh_update(oauth_sessions, loc[r].session, loc[r].token, loc[r].token,
                               loc[r].expires_in, loc[r].t)
                   EXCEPT ![loc[r].session].refresh_count =
                              refresh_count_after([refresh_count |-> loc[r].count])]
          ELSE oauth_sessions
    /\ Return(r, "refresh_session", loc[r].session,
              IF oauth_sessions' # oauth_sessions THEN "true" ELSE "false")

\* revoke_session: find_one by _id
revoke_session_find(r, id) ==
    /\ pc[r] = "idle"
    /\ SessionRaceFrame
    /\ UNCHANGED oauth_sessions
    /\ IF id \notin DOMAIN oauth_sessions
       THEN Return(r, "revoke_session", id, "false")
       ELSE /\ loc' = [loc EXCEPT ![r] = [IdleLoc EXCEPT !.op = "revoke", !.session = id]]
            /\ Goto(r, "revoke_session_write")
            /\ UNCHANGED last

\* revoke_session: update_one by _id
revoke_session_write(r) ==
    /\ pc[r] = "revoke_session_write"
    /\ SessionRaceFrame
    /\ oauth_sessions' =
          IF loc[r].session \in DOMAIN oauth_sessions
          THEN revoke_update(oauth_sessions, loc[r].session, "user_logout", now)
          ELSE oauth_sessions
    /\ Return(r, "revoke_session", loc[r].session,
              IF oauth_sessions' # oauth_sessions THEN "true" ELSE "false")

\* get_session: find_one of an active session and the expiry check
get_session_find(r, user_id, provider) ==
    /\ pc[r] = "idle"
    /\ SessionRaceFrame
    /\ UNCHANGED oauth_sessions
    /\ IF ActiveSessions(oauth_sessions, user_id, provider) = {}
       THEN Return(r, "get_session", 0, "none")
       ELSE \E id \in ActiveSessions(oauth_sessions, user_id, provider) :
               /\ loc' = [loc EXCEPT ![r] = [IdleLoc EXCEPT !.op = "get", !.session = id]]
               /\ Goto(r, IF is_token_expired(oauth_sessions[id], now)
                          THEN "get_expire" ELSE "get_touch")
               /\ UNCHANGED last

\* get_session: the update_one of _expire_session
get_session_expire(r) ==
    /\ pc[r] = "get_expire"
    /\ SessionRaceFrame
    /\ oauth_sessions' = IF loc[r].session \in DOMAIN oauth_sessions
                         THEN _expire_session(oauth_sessions, loc[r].session, "token_expired", now)
                         ELSE oauth_sessions
    /\ Return(r, "get_session", loc[r].session, "none")

\* get_session: the update_one of _update_session_activity
get_session_touch(r) ==
    /\ pc[r] = "get_touch"
    /\ SessionRaceFrame
    /\ oauth_sessions' = IF loc[r].session \in DOMAIN oauth_sessions
                         THEN [oauth_sessions EXCEPT ![loc[r].session].last_used = now]
                         ELSE oauth_sessions
    /\ Return(r, "get_session", loc[r].session, "ok")

\* update_many({'_id': {'$in': ids}}, ...) on the documents that still exist
expire_many_found(S, ids, t) == expire_many(S, ids \cap DOMAIN S, t)

\* get_user_sessions(user_id, active_only = True): the find and the expiry checks
list_find(r, user_id) ==
    /\ pc[r] = "idle"
    /\ SessionRaceFrame
    /\ UNCHANGED oauth_sessions
    /\ LET sessions == ActiveUserSessions(oauth_sessions, user_id)
           expired_session_ids == {i \in sessions : is_token_expired(oauth_sessions[i], now)}
       IN  IF expired_session_ids = {}
           THEN /\ pc' = [pc EXCEPT ![r] = "done"]
                /\ loc' = [loc EXCEPT ![r].result = "active"]
                /\ last' = [Outcome("get_user_sessions", user_id, "active")
                               EXCEPT !.arg = sessions]
           ELSE /\ loc' = [loc EXCEPT ![r] =
                              [IdleLoc EXCEPT !.op = "list", !.user_id = user_id,
                                              !.ids = expired_session_ids,
                                              !.session = Cardinality(sessions \ expired_session_ids)]]
                /\ Goto(r, "list_write")
                /\ UNCHANGED last

\* get_user_sessions: update_many of the ids found expired
list_write(r) ==
    /\ pc[r] = "list_write"
    /\ SessionRaceFrame
    /\ oauth_sessions' = expire_many_found(oauth_sessions, loc[r].ids, now)
    /\ pc' = [pc EXCEPT ![r] = "done"]
    /\ loc' = [loc EXCEPT ![r].result = "active"]
    /\ last' = [Outcome("get_user_sessions", loc[r].user_id, "active")
                   EXCEPT !.arg = loc[r].session]

\* cleanup_expired_sessions: now = utcnow(), then the find
cleanup_find(r) ==
    /\ pc[r] = "idle"
    /\ SessionRaceFrame
    /\ UNCHANGED oauth_sessions
    /\ IF ExpiredBefore(oauth_sessions, now) = {}
       THEN /\ pc' = [pc EXCEPT ![r] = "done"]
            /\ loc' = [loc EXCEPT ![r].result = "ok"]
            /\ last' = [Outcome("cleanup_expired_sessions", 0, "ok") EXCEPT !.arg = 0]
       ELSE /\ loc' = [loc EXCEPT ![r] =
                          [IdleLoc EXCEPT !.op = "cleanup", !.t = now,
                                          !.ids = ExpiredBefore(oauth_sessions, now)]]
            /\ Goto(r, "cleanup_write")
            /\ UNCHANGED last

\* cleanup_expired_sessions: update_many of the ids found, expired_at = the now read
\* before the find
cleanup_write(r) ==
    /\ pc[r] = "cleanup_write"
    /\ SessionRaceFrame
    /\ oauth_sessions' = expire_many_found(oauth_sessions, loc[r].ids, loc[r].t)
    /\ pc' = [pc EXCEPT ![r] = "done"]
    /\ loc' = [loc EXCEPT ![r].result = "ok"]
    /\ last' = [Outcome("cleanup_expired_sessions", 0, "ok")
                   EXCEPT !.arg = Cardinality({i \in loc[r].ids \cap DOMAIN oauth_sessions :
                                                  oauth_sessions'[i] # oauth_sessions[i]})]

\* user 1 holds MaxSessions Google sessions created at 0; the first has the short
\* lifetime
InitRefreshRace ==
    /\ users = InitUsers
    /\ oauth_sessions = [i \in 1..MaxSessions |->
                            session_doc(1, "google", "s1", "t1", None,
                                        IF i = 1 THEN verification_timeout
                                        ELSE default_expires_in, 0)]
    /\ sess_seq = MaxSessions
    /\ linking_sessions = <<>>
    /\ oauth_linking_audit = {}
    /\ link_seq = 0
    /\ now = 0
    /\ last = NoCall
    /\ InitProcess
    /\ wrong_submitted = [id \in LinkIds |-> 0]
    /\ wrong_passwords = [id \in LinkIds |-> 0]
    /\ InitRequests

NextRefreshRace ==
    \/ \E r \in Requests, id \in 1..MaxSessions :
           refresh_find(r, id, "t2", default_expires_in)
    \/ \E r \in Requests : refresh_expire(r)
    \/ \E r \in Requests : refresh_build(r)
    \/ \E r \in Requests : refresh_write(r)
    \/ \E r \in Requests, id \in 1..MaxSessions : revoke_session_find(r, id)
    \/ \E r \in Requests : revoke_session_write(r)
    \/ \E r \in Requests : get_session_find(r, 1, "google")
    \/ \E r \in Requests : get_session_expire(r)
    \/ \E r \in Requests : get_session_touch(r)
    \/ \E r \in Requests : list_find(r, 1)
    \/ \E r \in Requests : list_write(r)
    \/ \E r \in Requests : cleanup_find(r)
    \/ \E r \in Requests : cleanup_write(r)
    \/ Tick

SpecRefreshRace == InitRefreshRace /\ [][NextRefreshRace]_vars

(* SpecVerifyRace: verify_email_for_linking calls on one linking session.  A worker *)
(* that has answered a request takes the next one.  Here wrong_submitted counts    *)
(* every wrong code that was compared with the stored code.                        *)

VerifyRaceFrame == UNCHANGED <<users, oauth_sessions, sess_seq, link_seq, wrong_passwords, now, Process>>

\* verify_email_for_linking up to the comparison: the find_one of _get_linking_session,
\* then the checks and hmac.compare_digest on the document read
verify_email_find(r, id, code) ==
    /\ pc[r] = "idle"
    /\ VerifyRaceFrame
    /\ UNCHANGED <<linking_sessions, oauth_linking_audit>>
    /\ IF _get_linking_session(id) = {}
       THEN Return(r, "verify_email", id, "invalid_session") /\ UNCHANGED wrong_submitted
       ELSE LET s == linking_sessions[id] IN
            IF attempts_exceeded(s.email_verification_attempts)
            THEN /\ loc' = [loc EXCEPT ![r] = [IdleLoc EXCEPT !.op = "verify_email", !.link = id]]
                 /\ Goto(r, "verify_expire")
                 /\ UNCHANGED <<last, wrong_submitted>>
            ELSE IF s.email_verification_code = NoCode
            THEN Return(r, "verify_email", id, "not_initiated") /\ UNCHANGED wrong_submitted
            ELSE IF now > s.email_verification_expires_at
            THEN Return(r, "verify_email", id, "code_expired") /\ UNCHANGED wrong_submitted
            ELSE /\ loc' = [loc EXCEPT ![r] = [IdleLoc EXCEPT !.op = "verify_email", !.link = id]]
                 /\ UNCHANGED last
                 /\ IF s.email_verification_code # code
                    THEN /\ Goto(r, "verify_inc")
                         /\ wrong_submitted' = [wrong_submitted EXCEPT ![id] = @ + 1]
                    ELSE /\ Goto(r, "verify_set")
                         /\ UNCHANGED wrong_submitted

\* the attempt limit was reached: the update_one of _expire_linking_session
verify_email_expire(r) ==
    /\ pc[r] = "verify_expire"
    /\ VerifyRaceFrame
    /\ linking_sessions' = _expire_linking_session(loc[r].link)
    /\ Return(r, "verify_email", loc[r].link, "max_attempts")
    /\ UNCHANGED <<oauth_linking_audit, wrong_submitted>>

\* the code was wrong: update_one({'_id'}, {'$inc': {'email_verification_attempts': 1}})
verify_email_inc(r) ==
    /\ pc[r] = "verify_inc"
    /\ VerifyRaceFrame
    /\ linking_sessions' =
          [linking_sessions EXCEPT ![loc[r].link].email_verification_attempts = @ + 1]
    /\ Return(r, "verify_email", loc[r].link, "invalid_code")
    /\ UNCHANGED <<oauth_linking_audit, wrong_submitted>>

\* the code was right: update_one({'_id'}, {'$set': {'email_verified': True, ...}})
\* and the audit entry
verify_email_set(r) ==
    /\ pc[r] = "verify_set"
    /\ VerifyRaceFrame
    /\ linking_sessions' = [linking_sessions EXCEPT ![loc[r].link].email_verified = TRUE]
    /\ _log_linking_activity(linking_sessions[loc[r].link].user_id, "email_verified",
                             linking_sessions[loc[r].link].provider)
    /\ Return(r, "verify_email", loc[r].link, "ok")
    /\ UNCHANGED wrong_submitted

\* the worker takes the next request
next_request(r) ==
    /\ pc[r] = "done"
    /\ pc' = [pc EXCEPT ![r] = "idle"]
    /\ loc' = [loc EXCEPT ![r] = IdleLoc]
    /\ VerifyRaceFrame
    /\ UNCHANGED <<linking_sessions, oauth_linking_audit, wrong_submitted, last>>

\* user 2 started linking Google at 0 and was sent a code
InitVerifyRace ==
    /\ users = InitUsers
    /\ oauth_sessions = <<>>
    /\ sess_seq = 0
    /\ linking_sessions =
          [id \in LinkIds |->
              [linking_doc(2, "google", "s2", "b@x", 0)
                  EXCEPT !.email_verification_code = [i \in 1..code_length |-> 0],
                         !.email_verification_expires_at = verification_timeout]]
    /\ oauth_linking_audit =
          {[user_id |-> 2, action |-> "linking_initiated", provider |-> "google"]}
    /\ link_seq = Cardinality(LinkIds)
    /\ now = 0
    /\ last = NoCall
    /\ InitProcess
    /\ wrong_submitted = [id \in LinkIds |-> 0]
    /\ wrong_passwords = [id \in LinkIds |-> 0]
    /\ InitRequests

NextVerifyRace ==
    \/ \E r \in Requests, id \in LinkIds, code \in Guesses : verify_email_find(r, id, code)
    \/ \E r \in Requests : verify_email_expire(r)
    \/ \E r \in Requests : verify_email_inc(r)
    \/ \E r \in Requests : verify_email_set(r)
    \/ \E r \in Requests : next_request(r)
    \/ Tick

SpecVerifyRace == InitVerifyRace /\ [][NextVerifyRace]_vars

(* SpecLinkRace: AccountMerger.link_oauth_provider and complete_account_linking *)

\* a request to AccountMerger.link_oauth_provider arrives
link_begin(r, user_id, provider, provider_user_id) ==
    /\ pc[r] = "idle"
    /\ loc' = [loc EXCEPT ![r] =
                  [IdleLoc EXCEPT !.op = "link", !.user_id = user_id, !.provider = provider,
                                  !.oauth_id = provider_user_id]]
    /\ Goto(r, "can_link_user")
    /\ RaceFrame
    /\ UNCHANGED <<users, oauth_sessions, sess_seq, linking_sessions, last>>

\* complete_account_linking: the find_one of _get_linking_session
complete_get_session(r, id) ==
    /\ pc[r] = "idle"
    /\ IF _get_linking_session(id) = {}
       THEN /\ Return(r, "complete", id, "invalid_session")
       ELSE /\ loc' = [loc EXCEPT ![r] =
                          [IdleLoc EXCEPT !.op = "complete", !.link = id,
                                          !.user_id = linking_sessions[id].user_id,
                                          !.provider = linking_sessions[id].provider,
                                          !.oauth_id = linking_sessions[id].oauth_id]]
            /\ Goto(r, "check_status")
            /\ UNCHANGED last
    /\ RaceFrame
    /\ UNCHANGED <<users, oauth_sessions, sess_seq, linking_sessions>>

\* complete_account_linking: _check_verification_status reads the user; the session
\* is the document read before
complete_check_status(r) ==
    /\ pc[r] = "check_status"
    /\ IF all_verified(_check_verification_status(linking_sessions[loc[r].link]))
       THEN Goto(r, "can_link_user") /\ UNCHANGED <<loc, last>>
       ELSE Return(r, "complete", loc[r].link, "verification_incomplete")
    /\ RaceFrame
    /\ UNCHANGED <<users, oauth_sessions, sess_seq, linking_sessions>>

\* can_link_provider: find_one of the user
can_link_find_user(r) ==
    /\ pc[r] = "can_link_user"
    /\ LET linked == users[loc[r].user_id].oauth_providers[loc[r].provider] IN
       IF linked = None
       THEN Goto(r, "can_link_existing") /\ UNCHANGED <<loc, last>>
       ELSE IF linked = loc[r].oauth_id
       THEN Goto(r, "link_write") /\ UNCHANGED <<loc, last>>
       ELSE Return(r, loc[r].op, loc[r].user_id, "link_refused")
    /\ RaceFrame
    /\ UNCHANGED <<users, oauth_sessions, sess_seq, linking_sessions>>

\* can_link_provider: find_one of a user that holds this provider account
can_link_find_existing(r) ==
    /\ pc[r] = "can_link_existing"
    /\ IF get_user_by_oauth_provider(users, loc[r].provider, loc[r].oauth_id) = {}
       THEN Goto(r, "link_write") /\ UNCHANGED <<loc, last>>
       ELSE Return(r, loc[r].op, loc[r].user_id, "link_refused")
    /\ RaceFrame
    /\ UNCHANGED <<users, oauth_sessions, sess_seq, linking_sessions>>

\* link_oauth_provider: update_one; complete_account_linking then calls
\* create_oauth_session with the dict handle, which raises before any query
link_write(r) ==
    /\ pc[r] = "link_write"
    /\ users' = link_update(users, loc[r].user_id, loc[r].provider, loc[r].oauth_id)
    /\ Return(r, loc[r].op, loc[r].user_id,
              IF loc[r].op = "complete" /\ ~ create_oauth_session_returns(DictHandle)
              THEN "internal_error" ELSE "ok")
    /\ RaceFrame
    /\ UNCHANGED <<oauth_sessions, sess_seq, linking_sessions>>

\* user 1 signed up with a password, user 2 through Google; neither has linked GitHub
LinkRaceUsers ==
    [u \in UserIds |->
        IF u = 1
        THEN user_doc("a@x", bcrypt_hash("pw1"), NoLinks, {"email"})
        ELSE user_doc("b@x", NoPassword, [NoLinks EXCEPT !["google"] = "s2"], {"google"})]

\* each of the two has a linking session for the GitHub account "s1", with every
\* verification done
VerifiedLinkingSessions ==
    [id \in RaceLinkIds |->
        \* session id is the session of user id
        [linking_doc(id, "github", "s1", IF id = 1 THEN "a@x" ELSE "b@x", 0)
            EXCEPT !.email_verified = TRUE, !.password_verified = (id = 1),
                   !.email_verification_code = [i \in 1..code_length |-> 0],
                   !.email_verification_expires_at = verification_timeout]]

InitLinkRace ==
    /\ users = LinkRaceUsers
    /\ oauth_sessions = <<>>
    /\ sess_seq = 0
    /\ linking_sessions = VerifiedLinkingSessions
    /\ oauth_linking_audit = {}
    /\ link_seq = 2
    /\ now = 0
    /\ last = NoCall
    /\ InitProcess
    /\ wrong_submitted = [id \in LinkIds |-> 0]
    /\ wrong_passwords = [id \in LinkIds |-> 0]
    /\ InitRequests

NextLinkRace ==
    \/ \E r \in Requests, u \in UserIds, p \in Providers, i \in SubjectIds :
           link_begin(r, u, p, i)
    \/ \E r \in Requests, id \in RaceLinkIds : complete_get_session(r, id)
    \/ \E r \in Requests : complete_check_status(r)
    \/ \E r \in Requests : can_link_find_user(r)
    \/ \E r \in Requests : can_link_find_existing(r)
    \/ \E r \in Requests : link_write(r)

SpecLinkRace == InitLinkRace /\ [][NextLinkRace]_vars

(* SpecUnlinkRace: AccountMerger.unlink_oauth_provider *)

\* unlink_oauth_provider: find_one of the user and the checks on that document
unlink_find_user(r, user_id, provider) ==
    /\ pc[r] = "idle"
    /\ IF unlink_check(users[user_id], provider) = "ok"
       THEN /\ loc' = [loc EXCEPT ![r] =
                          [IdleLoc EXCEPT !.op = "unlink", !.user_id = user_id,
                                          !.provider = provider]]
            /\ Goto(r, "unlink_write")
            /\ UNCHANGED last
       ELSE Return(r, "unlink", user_id, unlink_check(users[user_id], provider))
    /\ RaceFrame
    /\ UNCHANGED <<users, oauth_sessions, sess_seq, linking_sessions>>

\* unlink_oauth_provider: update_one
unlink_write(r) ==
    /\ pc[r] = "unlink_write"
    /\ users' = unlink_update(users, loc[r].user_id, loc[r].provider)
    /\ Goto(r, "unlink_delete")
    /\ RaceFrame
    /\ UNCHANGED <<oauth_sessions, sess_seq, linking_sessions, last, loc>>

\* unlink_oauth_provider: delete_many of the provider's sessions
unlink_delete_sessions(r) ==
    /\ pc[r] = "unlink_delete"
    /\ oauth_sessions' = delete_sessions(oauth_sessions, loc[r].user_id, loc[r].provider)
    /\ Return(r, "unlink", loc[r].user_id, "ok")
    /\ RaceFrame
    /\ UNCHANGED <<users, sess_seq, linking_sessions>>

\* user 1 has a password and both providers; user 2 has no password and both providers
UnlinkRaceUsers ==
    [u \in UserIds |->
        IF u = 1
        THEN user_doc("a@x", bcrypt_hash("pw1"), [p \in Providers |-> "s1"],
                      {"email"} \cup Providers)
        ELSE user_doc("b@x", NoPassword, [p \in Providers |-> "s2"], Providers)]

\* user 2 is signed in with Google and with GitHub
InitUnlinkRace ==
    /\ users = UnlinkRaceUsers
    /\ oauth_sessions =
          <<session_doc(2, "google", "s2", "t1", None, default_expires_in, 0),
            session_doc(2, "github", "s2", "t2", None, github_expires_in, 0)>>
    /\ sess_seq = 2
    /\ linking_sessions = <<>>
    /\ oauth_linking_audit = {}
    /\ link_seq = 0
    /\ now = 0
    /\ last = NoCall
    /\ InitProcess
    /\ wrong_submitted = [id \in LinkIds |-> 0]
    /\ wrong_passwords = [id \in LinkIds |-> 0]
    /\ InitRequests

NextUnlinkRace ==
    \/ \E r \in Requests, u \in UserIds, p \in Providers : unlink_find_user(r, u, p)
    \/ \E r \in Requests : unlink_write(r)
    \/ \E r \in Requests : unlink_delete_sessions(r)

SpecUnlinkRace == InitUnlinkRace /\ [][NextUnlinkRace]_vars

(* SpecLinkFresh: the linking state machine for accounts that have not linked yet *)

\* user 1 signed up with a password and holds no provider; user 2 signed up through
\* Google and has no password
InitLinkFresh ==
    /\ users = LinkRaceUsers
    /\ oauth_sessions = <<>>
    /\ sess_seq = 0
    /\ linking_sessions = <<>>
    /\ oauth_linking_audit = {}
    /\ link_seq = 0
    /\ now = 0
    /\ last = NoCall
    /\ InitProcess
    /\ wrong_submitted = [id \in LinkIds |-> 0]
    /\ wrong_passwords = [id \in LinkIds |-> 0]
    /\ pc = <<>>
    /\ loc = <<>>

SpecLinkFresh == InitLinkFresh /\ [][Next]_vars

----------------------------------------------------------------------------
(* SpecScheduler: OAuthCleanupScheduler.  start_scheduler and stop_scheduler are   *)
(* called from request threads, one statement per step; a loop thread runs one     *)
(* pass of _run_scheduler per step and then sleeps.  The scheduler takes no lock.  *)

SchedulerFrame ==
    UNCHANGED <<users, sess_seq, linking_sessions, oauth_linking_audit, link_seq,
                wrong_submitted, wrong_passwords, requests, admitted, validation_cache>>

\* the threads that have not left _run_scheduler
LiveThreads == {t \in DOMAIN threads : threads[t].alive}

\* the callers between the test of self.running and Thread.start()
Starting == {r \in Requests : pc[r] \in {"start_set", "start_thread"}}

\* start_scheduler: if self.running: return / self.running = True /
\* self.cleanup_thread = Thread(target=self._run_scheduler); .start()
start_scheduler(r) ==
    /\ SchedulerFrame
    /\ UNCHANGED <<now, oauth_sessions, loc>>
    /\ \/ /\ pc[r] = "idle"
          /\ running
          /\ last' = Outcome("start_scheduler", 0, "already_running")
          /\ UNCHANGED <<pc, running, cleanup_thread, threads>>
       \/ /\ pc[r] = "idle"
          /\ ~ running
          /\ Len(threads) + Cardinality(Starting) < MaxThreads
          /\ Goto(r, "start_set")
          /\ UNCHANGED <<last, running, cleanup_thread, threads>>
       \/ /\ pc[r] = "start_set"
          /\ running' = TRUE
          /\ Goto(r, "start_thread")
          /\ UNCHANGED <<last, cleanup_thread, threads>>
       \/ /\ pc[r] = "start_thread"
          /\ threads' = Append(threads, [alive |-> TRUE, wake_at |-> now,
                                         last_session_cleanup |-> NoTime])
          /\ cleanup_thread' = Len(threads) + 1
          /\ Goto(r, "idle")
          /\ last' = Outcome("start_scheduler", Len(threads) + 1, "started")
          /\ UNCHANGED running

\* stop_scheduler: if not self.running: return / self.running = False /
\* if self.cleanup_thread: self.cleanup_thread.join(timeout=10)
stop_scheduler(r) ==
    /\ SchedulerFrame
    /\ UNCHANGED <<now, oauth_sessions, cleanup_thread, threads>>
    /\ \/ /\ pc[r] = "idle"
          /\ ~ running
          /\ last' = Outcome("stop_scheduler", 0, "not_running")
          /\ UNCHANGED <<pc, loc, running>>
       \/ /\ pc[r] = "idle"
          /\ running
          /\ Goto(r, "stop_set")
          /\ UNCHANGED <<last, loc, running>>
       \/ /\ pc[r] = "stop_set"
          /\ running' = FALSE
          /\ IF cleanup_thread # 0
             THEN /\ Goto(r, "stop_join")
                  /\ loc' = [loc EXCEPT ![r].session = cleanup_thread, ![r].t = now]
                  /\ UNCHANGED last
             ELSE /\ Goto(r, "idle")
                  /\ last' = Outcome("stop_scheduler", 0, "stopped")
                  /\ UNCHANGED loc
       \/ /\ pc[r] = "stop_join"
          /\ \/ ~ threads[loc[r].session].alive
             \/ now >= loc[r].t + join_timeout
          /\ Goto(r, "idle")
          /\ loc' = [loc EXCEPT ![r] = IdleLoc]
          /\ last' = Outcome("stop_scheduler", loc[r].session,
                             IF threads[loc[r].session].alive THEN "join_timeout"
                             ELSE "stopped")
          /\ UNCHANGED running

\* _run_scheduler, one pass of `while self.running:` by the thread t that has slept
\* its minute: _cleanup_sessions when session_cleanup_interval has passed
\* (cleanup_expired_sessions, then cleanup_old_sessions(session_retention_days)),
\* then time.sleep(60).  last_session_cleanup starts at datetime.min.  The audit
\* log that _cleanup_audit_logs prunes is not part of the state.
_run_scheduler(t) ==
    /\ SchedulerFrame
    /\ UNCHANGED <<now, pc, loc, running, cleanup_thread>>
    /\ t \in LiveThreads
    /\ threads[t].wake_at <= now
    /\ IF ~ running
       THEN /\ threads' = [threads EXCEPT ![t].alive = FALSE]
            /\ last' = Outcome("_run_scheduler", t, "exited")
            /\ UNCHANGED oauth_sessions
       ELSE LET due == \/ threads[t].last_session_cleanup = NoTime
                       \/ now - threads[t].last_session_cleanup >= session_cleanup_interval
                swept == expire_many(oauth_sessions, ExpiredBefore(oauth_sessions, now), now)
                old == OldInactive(swept, now - session_retention_days * seconds_per_day)
            IN  /\ oauth_sessions' = IF due THEN [i \in DOMAIN swept \ old |-> swept[i]]
                                     ELSE oauth_sessions
                /\ threads' = [threads EXCEPT
                                  ![t].wake_at = now + sleep_seconds,
                                  ![t].last_session_cleanup =
                                      IF due THEN now ELSE threads[t].last_session_cleanup]
                /\ last' = Outcome("_run_scheduler", t, IF due THEN "cleaned" ELSE "slept")

\* time passes, one join timeout at a step, once every thread that is due has run
\* and every caller is idle or waiting in join
TickJoin ==
    /\ now < verification_timeout + MaxJoins * join_timeout
    /\ \A t \in LiveThreads : threads[t].wake_at > now
    /\ \A r \in Requests : pc[r] \in {"idle", "stop_join"}
    /\ now' = now + join_timeout
    /\ SchedulerFrame
    /\ UNCHANGED <<oauth_sessions, last, pc, loc, running, cleanup_thread, threads>>

\* the server has been up for a while: one session has run out, the scheduler has
\* not been started
InitScheduler ==
    /\ users = InitUsers
    /\ oauth_sessions = [i \in {1} |->
                            session_doc(1, "google", "s1", "t1", None, verification_timeout, 0)]
    /\ sess_seq = 1
    /\ linking_sessions = <<>>
    /\ oauth_linking_audit = {}
    /\ link_seq = 0
    /\ now = verification_timeout + join_timeout
    /\ last = NoCall
    /\ InitProcess
    /\ wrong_submitted = [id \in LinkIds |-> 0]
    /\ wrong_passwords = [id \in LinkIds |-> 0]
    /\ InitRequests

NextScheduler ==
    \/ \E r \in Requests : start_scheduler(r)
    \/ \E r \in Requests : stop_scheduler(r)
    \/ \E t \in DOMAIN threads : _run_scheduler(t)
    \/ TickJoin

SpecScheduler == InitScheduler /\ [][NextScheduler]_vars

----------------------------------------------------------------------------
(* SpecLimiter: RateLimiter, one is_allowed call per step.  Every decorated route *)
(* calls the one global rate_limiter with its own limit and window.               *)

ProcessFrame ==
    UNCHANGED <<users, oauth_sessions, sess_seq, linking_sessions, oauth_linking_audit,
                link_seq, wrong_submitted, wrong_passwords, pc, loc,
                running, cleanup_thread, threads>>

\* time passes while no call runs
Sleep(seconds, until) ==
    /\ now + seconds <= until
    /\ now' = now + seconds
    /\ ProcessFrame
    /\ UNCHANGED <<last, requests, admitted, validation_cache>>

\* is_allowed: popleft while the oldest timestamp is <= now - window; reject when
\* `limit` timestamps are left; else append now
is_allowed(ip, limit, window) ==
    LET q == requests[ip]
        popped == Cardinality({i \in 1..Len(q) : \A j \in 1..i : q[j] <= now - window})
        kept == SubSeq(q, popped + 1, Len(q))
    IN  /\ ProcessFrame
        /\ UNCHANGED <<now, validation_cache>>
        /\ IF Len(kept) >= limit
           THEN /\ requests' = [requests EXCEPT ![ip] = kept]
                /\ UNCHANGED admitted
                /\ last' = [Outcome("is_allowed", 0, "rejected")
                               EXCEPT !.arg = <<ip, limit, window>>]
           ELSE /\ requests' = [requests EXCEPT ![ip] = Append(kept, now)]
                /\ admitted' = [admitted EXCEPT ![ip] =
                                   Append(@, [t |-> now, limit |-> limit, window |-> window])]
                /\ last' = [Outcome("is_allowed", 0, "allowed")
                               EXCEPT !.arg = <<ip, limit, window>>]

NextLimiter ==
    \/ \E ip \in ClientIps, limit \in 1..MaxLimit, window \in {default_window, oauth_window} :
           is_allowed(ip, limit, window)
    \/ Sleep(default_window, MaxMinutes * default_window)

SpecLimiter == Init /\ [][NextLimiter]_vars

(* SpecCache: the validation cache of OAuthTokenValidator.  validate_google_token *)
(* and validate_github_token look the key up, and after a miss ask the provider   *)
(* and cache its answer.                                                          *)

\* _get_cached_validation: the entry is returned while
\* (datetime.utcnow() - cached_at).seconds < cache_ttl, else deleted; timedelta.seconds
\* is the part of the difference below one day
_get_cached_validation(cache_key) ==
    /\ ProcessFrame
    /\ UNCHANGED <<now, requests, admitted>>
    /\ IF \E e \in validation_cache : e.key = cache_key
       THEN LET cached_data == CHOOSE e \in validation_cache : e.key = cache_key IN
            IF (now - cached_data.cached_at) % seconds_per_day < cache_ttl
            THEN /\ last' = [Outcome("_get_cached_validation", 0, "hit")
                                EXCEPT !.arg = <<cache_key, now, cached_data.result>>]
                 /\ UNCHANGED validation_cache
            ELSE /\ validation_cache' = validation_cache \ {cached_data}
                 /\ last' = [Outcome("_get_cached_validation", 0, "miss")
                                EXCEPT !.arg = <<cache_key, now, None>>]
       ELSE /\ last' = [Outcome("_get_cached_validation", 0, "miss")
                           EXCEPT !.arg = <<cache_key, now, None>>]
            /\ UNCHANGED validation_cache

\* _cache_validation, called with the provider's answer after a miss on the key;
\* above cache_max_entries the cache_evict_count oldest entries go
_cache_validation(cache_key, result) ==
    /\ last.op = "_get_cached_validation"
    /\ last.result = "miss"
    /\ last.arg[1] = cache_key
    /\ ProcessFrame
    /\ UNCHANGED <<now, requests, admitted>>
    /\ LET stored == {e \in validation_cache : e.key # cache_key}
                        \cup {[key |-> cache_key, result |-> result, cached_at |-> now]}
       IN  IF Cardinality(stored) > cache_max_entries
           THEN \E old \in SUBSET stored :
                   /\ Cardinality(old) = cache_evict_count
                   /\ \A e \in old, f \in stored \ old : e.cached_at <= f.cached_at
                   /\ validation_cache' = stored \ old
           ELSE validation_cache' = stored
    /\ last' = [Outcome("_cache_validation", 0, "ok") EXCEPT !.arg = <<cache_key, now, result>>]

\* calls arrive at the start of a day, in the last second an entry cached then is
\* fresh, and in the first second it is stale
NextCache ==
    \/ \E k \in {"google:t1", "github:t1"} : _get_cached_validation(k)
    \/ \E k \in {"google:t1", "github:t1"}, result \in SubjectIds : _cache_validation(k, result)
    \/ \E d \in {1, cache_ttl - 1, seconds_per_day - cache_ttl} :
           /\ (now + d) % seconds_per_day \in {0, cache_ttl - 1, cache_ttl}
           /\ Sleep(d, MaxDays * seconds_per_day + cache_ttl)

SpecCache == Init /\ [][NextCache]_vars

----------------------------------------------------------------------------
(* Properties of the linking state machine, checked under Spec *)

\* the session is one _get_linking_session returns: issued, before its deadline,
\* neither completed nor cancelled
Usable(id) ==
    /\ id \in DOMAIN linking_sessions
    /\ linking_sessions[id].expires_at > now
    /\ ~ linking_sessions[id].completed
    /\ ~ linking_sessions[id].cancelled

\* a step of one of the four linking operations on session id
LinkingCall(id) ==
    \/ \E c \in Codes, sent \in BOOLEAN : send_email_verification(id, c, sent)
    \/ \E c \in Guesses : verify_email_for_linking(id, c)
    \/ \E pw \in Passwords : verify_password_for_linking(id, pw)
    \/ complete_account_linking(id)

LinkStoresUnchanged == UNCHANGED <<users, oauth_sessions, linking_sessions>>

\* C3: complete links the provider only if the session has email_verified and, when
\* the account has a password at that moment, password_verified; on a usable session
\* that lacks one of them it fails with the verification-incomplete error, whose
\* details give, per step, whether it is required and whether it is completed.
C3_CompleteNeedsVerification ==
    [][\A id \in LinkIds :
          (id \in DOMAIN linking_sessions /\ complete_account_linking(id)) =>
              LET s == linking_sessions[id]
                  has_password == users[s.user_id].password # NoPassword
                  verified == s.email_verified /\ (has_password => s.password_verified)
              IN  /\ (users' # users \/ last'.result = "ok") => verified
                  /\ (Usable(id) /\ ~ verified) =>
                        /\ last'.result = "verification_incomplete"
                        /\ last'.details.present
                        /\ last'.details.email_required
                        /\ last'.details.email_completed = s.email_verified
                        /\ last'.details.password_required = has_password
                        /\ last'.details.password_completed = s.password_verified
                        /\ LinkStoresUnchanged
       ]_vars

\* C3 witness: complete refused on a session whose email step is done, for an account
\* that has a password whose step is not done
C3_Witness ==
    /\ last.op = "complete"
    /\ last.result = "verification_incomplete"
    /\ last.details.email_completed
    /\ last.details.password_required
    /\ ~ last.details.password_completed

\* C4 as stated: once three wrong codes were submitted on a session, every later
\* verifyEmail on it fails with the max-attempts error.
C4_Original ==
    [][\A id \in LinkIds, c \in Guesses :
          (wrong_submitted[id] >= max_verification_attempts /\ verify_email_for_linking(id, c))
              => last'.result = "max_attempts"
       ]_vars

\* C4 amended: once the attempt counter of a session has reached three (three wrong
\* codes were compared with an unexpired stored code), the counter never goes down
\* and every later verifyEmail fails, also with the stored code: with the max-attempts
\* error while the session is usable, with the invalid-session error when it is not;
\* email_verified is left as it was.
C4_AttemptLimit ==
    [][\A id \in DOMAIN linking_sessions :
          LET s == linking_sessions[id] IN
          /\ linking_sessions'[id].email_verification_attempts >= s.email_verification_attempts
          /\ \A c \in Guesses :
                (/\ s.email_verification_attempts >= max_verification_attempts
                 /\ verify_email_for_linking(id, c)) =>
                    /\ last'.result = IF Usable(id) THEN "max_attempts" ELSE "invalid_session"
                    /\ linking_sessions'[id].email_verified = s.email_verified
       ]_vars

\* C4 witness: the stored, unexpired code was submitted and met the max-attempts error
C4_Witness ==
    /\ last.op = "verify_email"
    /\ last.result = "max_attempts"
    /\ last.id \in DOMAIN linking_sessions
    /\ last.arg = linking_sessions[last.id].email_verification_code
    /\ now <= linking_sessions[last.id].email_verification_expires_at

\* C5 as stated: on a session that the attempt limit has expired, no later
\* sendEmailVerification, verifyEmail, verifyPassword or complete succeeds.
C5_Original ==
    [][\A id \in LinkIds :
          (id \in DOMAIN linking_sessions /\ linking_sessions[id].expired /\ LinkingCall(id))
              => (last'.result # "ok" /\ users' = users)
       ]_vars

\* C6: each of the four operations on a session at or past its deadline is rejected
\* as an invalid session and changes nothing; verifyEmail with the stored code after
\* the code's own expiry fails and does not set email_verified.
C6_Expiry ==
    [][\A id \in LinkIds :
          id \in DOMAIN linking_sessions =>
              LET s == linking_sessions[id] IN
              /\ (now >= s.expires_at /\ LinkingCall(id)) =>
                    (last'.result = "invalid_session" /\ LinkStoresUnchanged)
              /\ (/\ s.email_verification_code # NoCode
                  /\ now > s.email_verification_expires_at
                  /\ verify_email_for_linking(id, s.email_verification_code)) =>
                    /\ last'.result \in {"code_expired", "max_attempts", "invalid_session"}
                    /\ linking_sessions'[id].email_verified = s.email_verified
       ]_vars

\* C6 witness: the stored code, submitted after its expiry on a session still before
\* its deadline, was rejected as expired
C6_Witness ==
    /\ last.op = "verify_email"
    /\ last.result = "code_expired"
    /\ last.arg = linking_sessions[last.id].email_verification_code
    /\ now < linking_sessions[last.id].expires_at

\* complete has linked the provider through the session: under Spec only complete
\* writes a link, and initiate refuses a user who holds the provider
LinkedThrough(id) ==
    LET s == linking_sessions[id] IN
    users[s.user_id].oauth_providers[s.provider] = s.oauth_id

C7_CancelledSessionGone ==
    [][\A id \in LinkIds :
          (/\ id \in DOMAIN linking_sessions
           /\ linking_sessions[id].cancelled
           /\ LinkingCall(id)) =>
              (last'.result = "invalid_session" /\ LinkStoresUnchanged)
       ]_vars

\* a session never becomes completed, and complete never creates a provider session:
\* create_oauth_session raises on the dict handle
CompleteNeverSucceeds ==
    /\ \A id \in DOMAIN linking_sessions : ~ linking_sessions[id].completed
    /\ oauth_sessions = <<>>
    /\ ~ (last.op = "complete" /\ last.result = "ok")

\* C17: initiate is rejected when the provider is already linked to the user, and when
\* the provider identity (provider, subject id) is linked to another account; a
\* rejected initiate creates no linking session and no audit entry, and changes no
\* user and no provider session.
C17_InitiateRejected ==
    [][\A u \in UserIds, p \in Providers, i \in SubjectIds, e \in Emails \cup {None} :
          initiate_account_linking(u, p, i, e) =>
              /\ users[u].oauth_providers[p] # None => last'.result # "ok"
              /\ (\E v \in DOMAIN users \ {u} : users[v].oauth_providers[p] = i)
                    => last'.result # "ok"
              /\ last'.result # "ok" =>
                    /\ linking_sessions' = linking_sessions
                    /\ link_seq' = link_seq
                    /\ oauth_linking_audit' = oauth_linking_audit
                    /\ UNCHANGED <<users, oauth_sessions>>
       ]_vars

\* C17 witness: the last initiate was refused because the identity belongs to another
\* account, the caller's own e-mail and an unlinked provider notwithstanding
C17_Witness ==
    /\ last.op = "initiate"
    /\ last.result = "already_linked_elsewhere"
    /\ linking_sessions = <<>>
    /\ oauth_linking_audit = {}

\* C18: the verification requirements a successful initiate returns always include
\* email verification, and include password verification if and only if the account
\* has a password set; the steps listed are exactly the required ones.
C18_Requirements ==
    [][\A u \in UserIds, p \in Providers, i \in SubjectIds, e \in Emails \cup {None} :
          (initiate_account_linking(u, p, i, e) /\ last'.result = "ok") =>
              LET has_password == users[u].password # NoPassword
                  req == last'.details
              IN  /\ req.email_verification_required
                  /\ req.password_verification_required = has_password
                  /\ req.steps = IF has_password
                                 THEN <<"email_verification", "password_verification">>
                                 ELSE <<"email_verification">>
       ]_vars

\* C18 witness: initiate has just succeeded for an account with a password, and asks
\* for both steps
C18_Witness ==
    /\ last.op = "initiate"
    /\ last.result = "ok"
    /\ last.id \in DOMAIN linking_sessions
    /\ users[linking_sessions[last.id].user_id].password # NoPassword
    /\ last.details.password_verification_required
    /\ Len(last.details.steps) = 2

C19_CodeStoredCounterKept ==
    [][\A id \in LinkIds, c \in Codes :
          (Usable(id) /\ send_email_verification(id, c, TRUE)) =>
              /\ last'.result = "ok"
              /\ linking_sessions'[id].email_verification_code = c
              /\ Len(linking_sessions'[id].email_verification_code) = code_length
              /\ linking_sessions'[id].email_verification_expires_at = now + verification_timeout
              /\ linking_sessions'[id].email_verification_attempts
                    = linking_sessions[id].email_verification_attempts
       ]_vars

C21_VerifyPassword ==
    [][\A id \in LinkIds, pw \in Passwords :
          verify_password_for_linking(id, pw) =>
              LET case ==
                      /\ Usable(id)
                      /\ users[linking_sessions[id].user_id].password # NoPassword
                      /\ users[linking_sessions[id].user_id].password = bcrypt_hash(pw)
                      /\ wrong_passwords[id] < max_verification_attempts
              IN  /\ (last'.result = "ok") = case
                  /\ case => linking_sessions'[id].password_verified
                  /\ (~ case /\ id \in DOMAIN linking_sessions) =>
                        linking_sessions'[id].password_verified
                            = linking_sessions[id].password_verified
                  /\ (~ case /\ id \notin DOMAIN linking_sessions) =>
                        linking_sessions' = linking_sessions
       ]_vars

\* C21 witness: the right password was accepted after two wrong ones
C21_Witness ==
    /\ last.op = "verify_password"
    /\ last.result = "ok"
    /\ wrong_passwords[last.id] = max_verification_attempts - 1
    /\ linking_sessions[last.id].password_verified

\* C22: cancel always returns success: for a pending session, for a session that is
\* already cancelled or past its deadline, and for an unknown session id.  On a usable
\* session it marks the session cancelled, writes the audit entry and changes nothing
\* else; on any other id it changes nothing, so a second cancel leaves the state the
\* first one left.
C22_CancelIdempotent ==
    [][\A id \in LinkIds :
          cancel_account_linking(id) =>
              /\ last'.arg = TRUE
              /\ UNCHANGED <<users, oauth_sessions>>
              /\ IF Usable(id)
                 THEN /\ linking_sessions' =
                            [linking_sessions EXCEPT ![id] =
                                [@ EXCEPT !.cancelled = TRUE, !.status = "cancelled"]]
                      /\ [user_id |-> linking_sessions[id].user_id,
                          action |-> "linking_cancelled",
                          provider |-> linking_sessions[id].provider] \in oauth_linking_audit'
                      /\ ~ Usable(id)'
                 ELSE UNCHANGED <<linking_sessions, oauth_linking_audit>>
       ]_vars

\* C22 witness: cancel was called on a session that was cancelled before, and
\* returned success
C22_Witness ==
    /\ last.op = "cancel"
    /\ last.result = "not_found"
    /\ last.arg = TRUE
    /\ last.id \in DOMAIN linking_sessions
    /\ linking_sessions[last.id].cancelled

\* the audit entry for an action on linking session id, as _log_linking_activity writes it
LinkingEntry(L, id, action) ==
    [user_id |-> L[id].user_id, action |-> action, provider |-> L[id].provider]

\* C24 as stated, for the linking operations: every successful initiate, email
\* verification, password verification, complete and cancel leaves an audit entry
\* recording that action (for the user of the session, when the session exists).
C24_Original ==
    [][last' # last =>
          LET id == last'.id
              logged(action) == LinkingEntry(linking_sessions', id, action) \in oauth_linking_audit'
          IN  /\ (last'.op = "initiate" /\ last'.result = "ok") => logged("linking_initiated")
              /\ (last'.op = "verify_email" /\ last'.result = "ok") => logged("email_verified")
              /\ (last'.op = "verify_password" /\ last'.result = "ok") =>
                    logged("password_verified")
              /\ (last'.op = "complete" /\ last'.result = "ok") => logged("linking_completed")
              /\ (last'.op = "cancel" /\ last'.arg = TRUE) =>
                    IF id \in DOMAIN linking_sessions'
                    THEN logged("linking_cancelled")
                    ELSE \E a \in oauth_linking_audit' : a.action = "linking_cancelled"
       ]_vars

\* C24, what holds: each of these operations leaves its entry when it finds a usable
\* session and succeeds; cancel on a session it does not find returns success and
\* writes nothing, and complete never reaches its entry although the link is written.
C24_EntryWhenSessionFound ==
    [][last' # last =>
          LET id == last'.id
              logged(action) == LinkingEntry(linking_sessions', id, action) \in oauth_linking_audit'
          IN  /\ (last'.op = "initiate" /\ last'.result = "ok") => logged("linking_initiated")
              /\ (last'.op = "verify_email" /\ last'.result = "ok") => logged("email_verified")
              /\ (last'.op = "verify_password" /\ last'.result = "ok") =>
                    logged("password_verified")
              /\ (last'.op = "cancel" /\ last'.result = "ok") => logged("linking_cancelled")
              /\ (last'.op = "cancel" /\ last'.result = "not_found") =>
                    (last'.arg = TRUE /\ UNCHANGED oauth_linking_audit)
              /\ last'.op = "complete" =>
                    /\ last'.result # "ok"
                    /\ UNCHANGED oauth_linking_audit
       ]_vars

\* a call of get, refresh, revoke or listActive during which the store is unreachable
StorageFailureStep ==
    \/ get_session_call(FALSE, 1, "google")
    \/ \E id \in SessionIds : refresh_session_call(FALSE, id, "t2", "t2", default_expires_in)
    \/ \E id \in SessionIds : revoke_session_call(FALSE, id, "user_logout")
    \/ \E active_only \in BOOLEAN : get_user_sessions_call(FALSE, 1, active_only)

\* C25 as stated: a storage failure during get, refresh, revoke or listActive is
\* reported to the caller as a StorageError, not as one of the ordinary negative
\* results (absent, false, empty list).
C25_Original ==
    [][StorageFailureStep => last'.result = "StorageError"]_vars

\* C25, what holds: on a storage failure the four operations write nothing and return
\* the value they return when the session does not exist
C25_FailureLooksAbsent ==
    [][StorageFailureStep =>
          /\ UNCHANGED oauth_sessions
          /\ last'.op = "get_session" => last' = Outcome("get_session", 0, "none")
          /\ last'.op \in {"refresh_session", "revoke_session"} => last'.result = "false"
          /\ last'.op = "get_user_sessions" => last'.arg = {}
       ]_vars

\* C26: hash_token is a function of (token, context): sessions whose access tokens and
\* providers are equal hold equal access-token digests, and the same token hashed
\* with the contexts <provider> and <provider>_refresh gives different digests, so no
\* session's access-token digest equals its refresh-token digest, also when refresh
\* was given one token as both the access token and the refresh token.
C26_HashToken ==
    /\ \A t \in Tokens, p \in Providers :
          /\ hash_token(t, p) = hash_token(t, p)
          /\ hash_token(t, p) # hash_token(t, p \o "_refresh")
    /\ \A i \in DOMAIN oauth_sessions :
          LET s == oauth_sessions[i]
              token == IF s.refresh_count = 0 THEN "t1" ELSE "t2"
          IN  /\ s.access_token_hash = hash_token(token, s.provider)
              /\ s.access_token_hash # s.refresh_token_hash
              /\ s.refresh_count > 0 =>
                    s.refresh_token_hash = hash_token(token, s.provider \o "_refresh")
    /\ \A i, j \in DOMAIN oauth_sessions :
          (/\ oauth_sessions[i].provider = oauth_sessions[j].provider
           /\ oauth_sessions[i].refresh_count = oauth_sessions[j].refresh_count) =>
              oauth_sessions[i].access_token_hash = oauth_sessions[j].access_token_hash

\* C26 witness: two sessions were refreshed with one token as access and refresh token
C26_Witness ==
    /\ last.op = "refresh_session" /\ last.result = "true"
    /\ \E i, j \in DOMAIN oauth_sessions :
          /\ i # j
          /\ oauth_sessions[i].refresh_count > 0
          /\ oauth_sessions[j].refresh_count > 0
          /\ oauth_sessions[i].refresh_token_hash # <<None>>

\* C27: when create finds max_sessions_per_user (or more) active sessions of the user
\* with the provider, it revokes exactly one session, one with the earliest created_at
\* among the active ones, with the reason session_limit_exceeded; when it finds fewer
\* it revokes none.  Every other session is left as it was.
C27_CapRevokesOldest ==
    [][(last'.op = "create_session" /\ last'.result = "ok" /\ last' # last) =>
          LET new == oauth_sessions'[last'.id]
              active == ActiveSessions(oauth_sessions, new.user_id, new.provider)
              revoked == {i \in DOMAIN oauth_sessions :
                              oauth_sessions[i].is_active /\ ~ oauth_sessions'[i].is_active}
          IN  /\ \A i \in DOMAIN oauth_sessions \ revoked : oauth_sessions'[i] = oauth_sessions[i]
              /\ IF Cardinality(active) >= max_sessions_per_user
                 THEN /\ Cardinality(revoked) = 1
                      /\ \A i \in revoked :
                            /\ i \in active
                            /\ \A j \in active :
                                  oauth_sessions[i].created_at <= oauth_sessions[j].created_at
                            /\ oauth_sessions'[i].revocation_reason = "session_limit_exceeded"
                            /\ oauth_sessions'[i].revoked_at = now
                 ELSE revoked = {}
       ]_vars

\* C27 witness: create found max_sessions_per_user active sessions with distinct
\* created_at and the earliest one is now revoked for the limit, the others active
C27_Witness ==
    /\ last.op = "create_session"
    /\ last.result = "ok"
    /\ Cardinality(ActiveSessions(oauth_sessions, 1, "google")) = max_sessions_per_user
    /\ \E i \in DOMAIN oauth_sessions :
          /\ oauth_sessions[i].revocation_reason = "session_limit_exceeded"
          /\ oauth_sessions[i].revoked_at = now
          /\ \A j \in DOMAIN oauth_sessions \ {i} :
                oauth_sessions[j].created_at > oauth_sessions[i].created_at

\* C32 as stated: in every reachable state a linking session is in at most one
\* terminal condition: it is never at once two of completed, cancelled and expired.
C32_Original ==
    \A id \in DOMAIN linking_sessions :
        LET s == linking_sessions[id] IN
        /\ ~ (s.completed /\ s.cancelled)
        /\ ~ (s.completed /\ s.expired)
        /\ ~ (s.cancelled /\ s.expired)

\* C33 as stated: complete is all-or-nothing: when it fails (invalid session,
\* verification incomplete, link refused, provider session not created) the users,
\* the session store and the linking sessions are as they were before the call.
C33_Original ==
    [][\A id \in LinkIds :
          (complete_account_linking(id) /\ last'.result # "ok") =>
              UNCHANGED <<users, oauth_sessions, linking_sessions>>
       ]_vars

\* C33, what holds: a complete that fails before the link is written changes nothing;
\* one that fails in the creation of the provider session leaves the link and the
\* login method on the user, and no session and no completed flag
C33_FailureKeepsLink ==
    [][\A id \in LinkIds :
          complete_account_linking(id) =>
              /\ UNCHANGED <<oauth_sessions, linking_sessions>>
              /\ last'.result \in {"invalid_session", "verification_incomplete", "link_refused"}
                    => UNCHANGED users
              /\ last'.result = "internal_error" =>
                    LET s == linking_sessions[id] IN
                    /\ users'[s.user_id].oauth_providers[s.provider] = s.oauth_id
                    /\ s.provider \in users'[s.user_id].login_methods
       ]_vars

\* C34 as stated: create is all-or-nothing: when it fails (hash_token raises, or
\* insert_one raises) no session has been inserted and no existing session has been
\* revoked, so the session store is as it was.
C34_Original ==
    [][\A f \in CreateFailures, p \in Providers :
          create_session_fails(f, 1, p) => UNCHANGED oauth_sessions
       ]_vars

\* C34, what holds: a failed create inserts nothing and stores no token; when
\* hash_token fails nothing changes at all; when insert_one fails at the limit, the
\* oldest active session has been revoked
C34_FailedCreateInsertsNothing ==
    [][\A f \in CreateFailures, p \in Providers :
          create_session_fails(f, 1, p) =>
              /\ DOMAIN oauth_sessions' = DOMAIN oauth_sessions
              /\ f = "hash_token" => UNCHANGED oauth_sessions
              /\ Cardinality(ActiveSessions(oauth_sessions, 1, p)) < max_sessions_per_user
                    => UNCHANGED oauth_sessions
              /\ (/\ f = "insert_one"
                  /\ Cardinality(ActiveSessions(oauth_sessions, 1, p)) >= max_sessions_per_user)
                    => Cardinality(ActiveSessions(oauth_sessions', 1, p))
                           = Cardinality(ActiveSessions(oauth_sessions, 1, p)) - 1
       ]_vars

C11_Original ==
    [][\A id \in LinkIds :
          (/\ Usable(id)
           /\ linking_sessions[id].email_verified
           /\ linking_sessions[id].password_verified
           /\ users[linking_sessions[id].user_id].password # NoPassword
           /\ users[linking_sessions[id].user_id].oauth_providers = NoLinks
           /\ complete_account_linking(id)) =>
              LET s == linking_sessions[id] IN
              /\ last'.result = "ok"
              /\ users'[s.user_id].oauth_providers[s.provider] = s.oauth_id
              /\ {"email", s.provider} \subseteq users'[s.user_id].login_methods
              /\ Cardinality(ActiveSessions(oauth_sessions', s.user_id, s.provider))
                    = Cardinality(ActiveSessions(oauth_sessions, s.user_id, s.provider)) + 1
              /\ linking_sessions'[id].completed
       ]_vars

----------------------------------------------------------------------------
(* Properties of the session store, checked under SpecSession *)

\* C8 as stated: revoke_session on a session that is already inactive returns success
\* and leaves the revoked_at and the revocation_reason of the session as they were.
C8_Original ==
    [][\A id \in SessionIds, reason \in Reasons :
          (/\ id \in DOMAIN oauth_sessions
           /\ ~ oauth_sessions[id].is_active
           /\ revoke_session(id, reason)) =>
              /\ last'.result = "true"
              /\ oauth_sessions'[id].revoked_at = oauth_sessions[id].revoked_at
              /\ oauth_sessions'[id].revocation_reason = oauth_sessions[id].revocation_reason
       ]_vars

\* C8, the part about the stored fields alone: violated as well, by a second revoke
\* at a later time or with another reason
C8_FieldsKept ==
    [][\A id \in SessionIds, reason \in Reasons :
          (/\ id \in DOMAIN oauth_sessions
           /\ ~ oauth_sessions[id].is_active
           /\ revoke_session(id, reason)) =>
              /\ oauth_sessions'[id].revoked_at = oauth_sessions[id].revoked_at
              /\ oauth_sessions'[id].revocation_reason = oauth_sessions[id].revocation_reason
       ]_vars

\* C12: get_session looks at one active session of the user and provider (the one
\* find_one returns).  If that session's expires_at has passed (now >= expires_at), get
\* returns absent and leaves that session inactive with reason token_expired; if its
\* expires_at is in the future, get returns that session, which stays active and gets
\* last_used = now.  No other session changes, and nothing is inserted or deleted.
C12_GetSession ==
    [][\A u \in UserIds, p \in Providers :
          get_session(u, p) =>
              /\ DOMAIN oauth_sessions' = DOMAIN oauth_sessions
              /\ IF ActiveSessions(oauth_sessions, u, p) = {}
                 THEN last'.result = "none" /\ oauth_sessions' = oauth_sessions
                 ELSE LET id == last'.id
                          old == oauth_sessions[id]
                          new == oauth_sessions'[id]
                      IN  /\ id \in ActiveSessions(oauth_sessions, u, p)
                          /\ \A j \in DOMAIN oauth_sessions \ {id} :
                                oauth_sessions'[j] = oauth_sessions[j]
                          /\ now >= old.expires_at =>
                                /\ last'.result = "none"
                                /\ ~ new.is_active
                                /\ new.expiration_reason = "token_expired"
                                /\ new.expired_at = now
                          /\ now < old.expires_at =>
                                /\ last'.result = "ok"
                                /\ new = [old EXCEPT !.last_used = now]
       ]_vars

\* C12 witness: get met an active session exactly at its expires_at, returned absent
\* and left it inactive with reason token_expired
C12_Witness ==
    /\ last.op = "get_session"
    /\ last.result = "none"
    /\ last.id \in DOMAIN oauth_sessions
    /\ oauth_sessions[last.id].expires_at = now
    /\ ~ oauth_sessions[last.id].is_active
    /\ oauth_sessions[last.id].expiration_reason = "token_expired"

----------------------------------------------------------------------------
(* Properties of refresh, listing and the sweeps, checked under SpecSessionSweep *)

\* the fields a successful refresh promises, on the document after the update
Refreshed(old, new, new_access_token, new_refresh_token, expires_in) ==
    /\ new.access_token_hash = hash_token(new_access_token, old.provider)
    /\ new.refresh_token_hash = hash_token(new_refresh_token, old.provider \o "_refresh")
    /\ new.expires_at = now + expires_in
    /\ new.refresh_count = old.refresh_count + 1

OtherSessionsUnchanged(id) ==
    /\ DOMAIN oauth_sessions' = DOMAIN oauth_sessions
    /\ \A j \in DOMAIN oauth_sessions \ {id} : oauth_sessions'[j] = oauth_sessions[j]

\* C13 as stated: refresh returns false and changes nothing when the session id is
\* unknown or the session is inactive or past expires_at; when it succeeds it replaces
\* the token hashes, sets expires_at to the refresh time plus ttl and increases the
\* refresh counter by exactly one.
C13_Original ==
    [][\A id \in SessionIds, ttl \in TokenLifetimes :
          refresh_session(id, "t2", "t2", ttl) =>
              IF \/ id \notin DOMAIN oauth_sessions
                 \/ ~ oauth_sessions[id].is_active
                 \/ now > oauth_sessions[id].expires_at
              THEN last'.result = "false" /\ oauth_sessions' = oauth_sessions
              ELSE last'.result = "true" =>
                      Refreshed(oauth_sessions[id], oauth_sessions'[id], "t2", "t2", ttl)
       ]_vars

\* C13 amended: refresh returns false and changes nothing when the session id is
\* unknown or the session is inactive; on an active session at or past its expires_at
\* it returns false and marks that session inactive with reason token_expired, leaving
\* its token hashes, expires_at and refresh counter as they were; on an active session
\* before its expires_at it returns true, replaces the token hashes, sets expires_at to
\* the refresh time plus ttl and increases the refresh counter by exactly one.  No
\* other session changes.
C13_Refresh ==
    [][\A id \in SessionIds, ttl \in TokenLifetimes :
          refresh_session(id, "t2", "t2", ttl) =>
              IF id \notin DOMAIN oauth_sessions
              THEN last'.result = "false" /\ oauth_sessions' = oauth_sessions
              ELSE LET old == oauth_sessions[id]
                       new == oauth_sessions'[id]
                   IN  /\ OtherSessionsUnchanged(id)
                       /\ ~ old.is_active => (last'.result = "false" /\ new = old)
                       /\ (old.is_active /\ now >= old.expires_at) =>
                             /\ last'.result = "false"
                             /\ new = [old EXCEPT !.is_active = FALSE, !.expired_at = now,
                                                  !.expiration_reason = "token_expired"]
                       /\ (old.is_active /\ now < old.expires_at) =>
                             /\ last'.result = "true"
                             /\ new.is_active
                             /\ Refreshed(old, new, "t2", "t2", ttl)
       ]_vars

\* C14, the part about the session manager alone, which holds under SpecSessionSweep:
\* its handlers remove a session only in cleanup_old_sessions, and then only an
\* inactive one created before the cutoff
C14_ManagerDeletesOnlyOldInactive ==
    [][\A i \in DOMAIN oauth_sessions :
          i \notin DOMAIN oauth_sessions' =>
              /\ ~ oauth_sessions[i].is_active
              /\ \E days_old \in RetentionDays :
                    /\ cleanup_old_sessions(days_old)
                    /\ oauth_sessions[i].created_at < now - days_old * seconds_per_day
       ]_vars

\* C13 witness: a session was refreshed just now, for the first time
C13_Witness ==
    /\ last.op = "refresh_session"
    /\ last.result = "true"
    /\ last.id \in DOMAIN oauth_sessions
    /\ oauth_sessions[last.id].refreshed_at = now
    /\ oauth_sessions[last.id].refresh_count = 1
    /\ oauth_sessions[last.id].access_token_hash = hash_token("t2", oauth_sessions[last.id].provider)

\* C15: cleanup_expired_sessions marks inactive (reason token_expired, expired_at =
\* now) every active session whose expires_at is before now, returns the number of
\* sessions it marked, and leaves every other session unchanged: the inactive ones and
\* the active ones whose expires_at is now or later.  It inserts and deletes nothing.
C15_SweepExpired ==
    [][cleanup_expired_sessions =>
          LET swept == {i \in DOMAIN oauth_sessions :
                           oauth_sessions[i].is_active /\ oauth_sessions[i].expires_at < now}
          IN  /\ DOMAIN oauth_sessions' = DOMAIN oauth_sessions
              /\ last'.arg = Cardinality(swept)
              /\ \A i \in swept :
                    oauth_sessions'[i] =
                        [oauth_sessions[i] EXCEPT !.is_active = FALSE, !.expired_at = now,
                                                  !.expiration_reason = "token_expired"]
              /\ \A i \in DOMAIN oauth_sessions \ swept : oauth_sessions'[i] = oauth_sessions[i]
       ]_vars

\* C15 witness: the sweep has just marked one session and left an active one alone
C15_Witness ==
    /\ last.op = "cleanup_expired_sessions"
    /\ last.arg = 1
    /\ \E i, j \in DOMAIN oauth_sessions :
          /\ ~ oauth_sessions[i].is_active
          /\ oauth_sessions[i].expired_at = now
          /\ oauth_sessions[i].expires_at < now
          /\ oauth_sessions[j].is_active
          /\ oauth_sessions[j].expires_at >= now

\* C16: get_user_sessions(user) with active_only returns exactly the sessions of that
\* user that are active and before their expires_at (now < expires_at); after the call
\* no session of the user at or past its expires_at is active: those that were are
\* marked inactive with reason token_expired.  Every other session is unchanged.
C16_ListActive ==
    [][\A u \in UserIds :
          get_user_sessions(u, TRUE) =>
              LET mine == {i \in DOMAIN oauth_sessions : oauth_sessions[i].user_id = u}
                  live == {i \in mine : oauth_sessions[i].is_active
                                          /\ now < oauth_sessions[i].expires_at}
                  lapsed == {i \in mine : oauth_sessions[i].is_active
                                            /\ now >= oauth_sessions[i].expires_at}
              IN  /\ last'.arg = live
                  /\ DOMAIN oauth_sessions' = DOMAIN oauth_sessions
                  /\ \A i \in mine :
                        now >= oauth_sessions[i].expires_at => ~ oauth_sessions'[i].is_active
                  /\ \A i \in lapsed : oauth_sessions'[i].expiration_reason = "token_expired"
                  /\ \A i \in DOMAIN oauth_sessions \ lapsed :
                        oauth_sessions'[i] = oauth_sessions[i]
       ]_vars

\* C16 witness: the listing has just returned the one live session of the user and
\* marked a lapsed one
C16_Witness ==
    /\ last.op = "get_user_sessions"
    /\ last.result = "active"
    /\ \E i, j \in DOMAIN oauth_sessions :
          /\ oauth_sessions[i].user_id = last.id
          /\ ~ oauth_sessions[i].is_active
          /\ oauth_sessions[i].expired_at = now
          /\ oauth_sessions[j].user_id = last.id
          /\ oauth_sessions[j].is_active
          /\ last.arg = {j}

----------------------------------------------------------------------------
(* Properties of the accounts, checked under SpecAccounts *)

\* C36 as stated: when a user has several active sessions for one provider,
\* get_session returns absent only if every one of them is expired: an expired
\* session among them does not hide a session that is still valid.
C36_Original ==
    [][\A p \in Providers :
          (get_session(1, p) /\ last'.result = "none") =>
              \A i \in ActiveSessions(oauth_sessions, 1, p) :
                  is_token_expired(oauth_sessions[i], now)
       ]_vars

\* C36, what holds: get_session looks at one active session of the user and provider;
\* when that one is expired it is marked and absent is returned, whatever the others
C36_OneSessionLooked ==
    [][\A p \in Providers :
          (get_session(1, p) /\ last'.result = "none" /\ last'.id # 0) =>
              /\ last'.id \in ActiveSessions(oauth_sessions, 1, p)
              /\ is_token_expired(oauth_sessions[last'.id], now)
              /\ ~ oauth_sessions'[last'.id].is_active
              /\ \A i \in DOMAIN oauth_sessions \ {last'.id} :
                    oauth_sessions'[i] = oauth_sessions[i]
       ]_vars

\* C37 as stated: a successful refresh leaves the session's created_at, owning user,
\* provider, provider subject id and is_active flag unchanged.
C37_Original ==
    [][(last'.op = "refresh_session" /\ last'.result = "true" /\ last' # last) =>
          LET old == oauth_sessions[last'.id]
              new == oauth_sessions'[last'.id]
          IN  /\ new.created_at = old.created_at
              /\ new.user_id = old.user_id
              /\ new.provider = old.provider
              /\ new.provider_user_id = old.provider_user_id
              /\ new.is_active = old.is_active
       ]_vars

\* C37, what holds: a successful refresh keeps the user, the provider, the subject id
\* and the is_active flag, and sets created_at and last_used to the time of the refresh
C37_RefreshResetsCreatedAt ==
    [][(last'.op = "refresh_session" /\ last'.result = "true" /\ last' # last) =>
          LET old == oauth_sessions[last'.id]
              new == oauth_sessions'[last'.id]
          IN  /\ new.created_at = now
              /\ new.last_used = now
              /\ new.user_id = old.user_id
              /\ new.provider = old.provider
              /\ new.provider_user_id = old.provider_user_id
              /\ new.is_active = old.is_active
       ]_vars

\* C10 as stated: no operation replaces the link an account holds for a provider by a
\* link with a different subject id; the stored link stays as it was.
C10_Original ==
    [][\A v \in DOMAIN users, p \in Providers :
          users[v].oauth_providers[p] # None =>
              users'[v].oauth_providers[p] \in {None, users[v].oauth_providers[p]}
       ]_vars

\* C23: check_account_conflict(email, provider, subject id) returns no conflict when
\* no account has that email fingerprint; no conflict when the account holds that
\* provider with the same subject id; provider_account_mismatch when it holds that
\* provider with another subject id; account_exists when it does not hold that
\* provider and has a password or a linked provider.  It never modifies the store.
C23_CheckAccountConflict ==
    [][(last'.op = "check_conflict" /\ last' # last) =>
          LET e == last'.arg[1]
              p == last'.arg[2]
              i == last'.arg[3]
              holders == {v \in DOMAIN users : users[v].email_hash = <<"sha256", Lower(e)>>}
              v == last'.id
          IN  /\ UNCHANGED <<users, oauth_sessions, linking_sessions, oauth_linking_audit>>
              /\ holders = {} => last'.result = None
              /\ holders # {} =>
                    /\ v \in holders
                    /\ users[v].oauth_providers[p] = i => last'.result = None
                    /\ users[v].oauth_providers[p] \notin {None, i} =>
                          last'.result = "provider_account_mismatch"
                    /\ (/\ users[v].oauth_providers[p] = None
                        /\ \/ users[v].password # NoPassword
                           \/ \E q \in Providers : users[v].oauth_providers[q] # None) =>
                          last'.result = "account_exists"
       ]_vars

\* C23 witness: the check was made for a provider the account does not hold, on an
\* account whose only method is its password, and returned account_exists
C23_Witness ==
    /\ last.op = "check_conflict"
    /\ last.result = "account_exists"
    /\ last.id \in DOMAIN users
    /\ users[last.id].password # NoPassword
    /\ \A q \in Providers : users[last.id].oauth_providers[q] = None

\* C14 as stated: a provider session is physically removed from the store only by
\* cleanup_old_sessions, which removes only sessions that are inactive and older than
\* the retention window; an active session is never deleted by any operation.
C14_Original ==
    [][\A i \in DOMAIN oauth_sessions :
          i \notin DOMAIN oauth_sessions' =>
              /\ ~ oauth_sessions[i].is_active
              /\ \E days_old \in RetentionDays :
                    /\ cleanup_old_sessions(days_old)
                    /\ oauth_sessions[i].created_at < now - days_old * seconds_per_day
       ]_vars

----------------------------------------------------------------------------
(* Properties of concurrent requests *)

\* C1 as stated: in every state reached by interleaved create_session requests, each
\* user has at most max_sessions_per_user active sessions with each provider.
C1_Original ==
    \A u \in DOMAIN users, p \in Providers :
        Cardinality(ActiveSessions(oauth_sessions, u, p)) <= max_sessions_per_user

\* C2 as stated: under interleaved link operations for different accounts, no
\* (provider, subject id) pair is linked to two accounts.
C2_Original ==
    \A u, v \in DOMAIN users, p \in Providers :
        (u # v /\ users[u].oauth_providers[p] # None) =>
            users[u].oauth_providers[p] # users[v].oauth_providers[p]

\* C28 as stated: once a session has become inactive (revoked or expired) it never
\* becomes active again, under any interleaving of refresh with revoke, get,
\* listActive and sweepExpired on the same session.
C28_Original ==
    [][\A i \in DOMAIN oauth_sessions :
          (i \in DOMAIN oauth_sessions' /\ ~ oauth_sessions[i].is_active) =>
              ~ oauth_sessions'[i].is_active
       ]_vars

\* C29 as stated: the marking update of sweepExpired and of listActive, running
\* concurrently with refresh, never marks inactive a session whose expires_at is in
\* the future at the moment of that update.
C29_Original ==
    [][\A r \in Requests :
          (cleanup_write(r) \/ list_write(r)) =>
              \A i \in DOMAIN oauth_sessions :
                  (oauth_sessions[i].is_active /\ ~ oauth_sessions'[i].is_active) =>
                      oauth_sessions[i].expires_at <= now
       ]_vars

\* C30 as stated: under any interleaving of verify_email_for_linking calls on one
\* linking session, at most max_verification_attempts wrong codes are compared with
\* the stored code in total, and each wrong submission increases the attempt counter
\* by exactly one.
C30_Original ==
    [][/\ \A id \in LinkIds : wrong_submitted'[id] <= max_verification_attempts
       /\ \A r \in Requests :
             verify_email_inc(r) =>
                 linking_sessions'[loc[r].link].email_verification_attempts =
                     linking_sessions[loc[r].link].email_verification_attempts + 1
      ]_vars

\* C30, what holds: every wrong code compared is counted once, when its $inc is
\* applied, and the number compared exceeds the limit by less than the number of
\* requests in flight
C30_EachWrongCountedOnce ==
    \A id \in LinkIds :
        /\ wrong_submitted[id] =
              linking_sessions[id].email_verification_attempts
                  + Cardinality({r \in Requests : pc[r] = "verify_inc" /\ loc[r].link = id})
        /\ wrong_submitted[id] < max_verification_attempts + MaxRequests

\* C31 as stated: when every request in flight has run complete on the same fully
\* verified linking session, exactly one of the calls has succeeded and exactly one
\* provider session exists for the link; every other call was rejected.
C31_Original ==
    \A id \in RaceLinkIds :
        (\A r \in Requests :
            pc[r] = "done" /\ loc[r].op = "complete" /\ loc[r].link = id) =>
            /\ Cardinality({r \in Requests : loc[r].result = "ok"}) = 1
            /\ Cardinality(ActiveSessions(oauth_sessions, linking_sessions[id].user_id,
                                          linking_sessions[id].provider)) = 1

\* C31, what holds: no complete call succeeds and none creates a provider session,
\* and each call that passes can_link_provider writes the link
C31_NoCompleteSucceeds ==
    /\ oauth_sessions = <<>>
    /\ \A r \in Requests :
          (pc[r] = "done" /\ loc[r].op = "complete") =>
              /\ loc[r].result \in {"internal_error", "link_refused"}
              /\ loc[r].result = "internal_error" =>
                    users[loc[r].user_id].oauth_providers[loc[r].provider] # None

\* C9 as stated: under interleaved unlink operations, every user keeps a password or
\* at least one linked provider.
C9_Original ==
    \A v \in DOMAIN users :
        \/ users[v].password # NoPassword
        \/ \E p \in Providers : users[v].oauth_providers[p] # None

----------------------------------------------------------------------------
(* Properties of the server process, checked under SpecScheduler and SpecProcess *)

\* the loop threads of a running scheduler that have run a cleanup pass and will
\* run the next one
RunningCleanups ==
    {t \in LiveThreads : running /\ threads[t].last_session_cleanup # NoTime}

\* C38 as stated: after any sequence of start_scheduler and stop_scheduler calls,
\* a start shortly after a stop and two concurrent starts included, at most one
\* scheduler loop thread is running cleanups.
C38_Original == Cardinality(RunningCleanups) <= 1

\* the calls of ip admitted with this limit and window after time t
AdmittedSince(A, ip, limit, window, t) ==
    {i \in 1..Len(A[ip]) :
        A[ip][i].limit = limit /\ A[ip][i].window = window /\ A[ip][i].t > t}

\* C39 as stated: for every client IP and every sequence of is_allowed(ip, limit,
\* window) calls, at most `limit` calls are admitted within any interval of `window`
\* seconds; a rejected call is not recorded.
C39_Original ==
    [][ /\ admitted' # admitted =>
             Cardinality(AdmittedSince(admitted', last'.arg[1], last'.arg[2], last'.arg[3],
                                       now - last'.arg[3])) <= last'.arg[2]
        /\ admitted' = admitted =>
             \A ip \in ClientIps : Len(requests'[ip]) <= Len(requests[ip]) ]_vars

\* C39, what holds: the bound holds over the timestamps the limiter still keeps
\* for the IP, which every call, admitted or rejected, prunes with its own window
C39_KeptWithinLimit ==
    [][ admitted' # admitted =>
           LET kept == requests'[last'.arg[1]] IN
           /\ Len(kept) <= last'.arg[2]
           /\ \A i \in 1..Len(kept) : kept[i] > now - last'.arg[3] /\ kept[i] <= now ]_vars

\* C40 as stated: a lookup never returns an entry cached cache_ttl seconds ago or
\* longer, whatever its age; such an entry is evicted by the lookup, which misses.
C40_Original ==
    [][ (last'.op = "_get_cached_validation" /\ last' # last) =>
           \A e \in validation_cache :
               (e.key = last'.arg[1] /\ now - e.cached_at >= cache_ttl) =>
                   /\ last'.result = "miss"
                   /\ e \notin validation_cache' ]_vars

\* C40, what holds: the lookup tests the age without its whole days
C40_FreshWithinDay ==
    [][ (last'.op = "_get_cached_validation" /\ last' # last) =>
           \A e \in validation_cache :
               e.key = last'.arg[1] =>
                   /\ (last'.result = "hit") =
                         ((now - e.cached_at) % seconds_per_day < cache_ttl)
                   /\ last'.result = "miss" => e \notin validation_cache' ]_vars

====
